---- MODULE Spec2Model ----
(***************************************************************************)
(* Model of tcam::PipelineManager (src/src/PipelineManager.cpp) and of the *)
(* CaptureDeviceImpl entry points that drive it.                           *)
(*                                                                         *)
(* Three threads act on one PipelineManager:                               *)
(*   - the control thread, which calls set_status, setSource, setSink,     *)
(*     setVideoFormat, destroyPipeline and CaptureDeviceImpl::start_stream;*)
(*   - the worker thread m_pipeline_thread, which executes run_pipeline;   *)
(*   - the producer thread of the capture backend, which calls push_image. *)
(* The status field is written by the control thread without holding       *)
(* m_mtx, so every write of it is a step of its own and the other threads  *)
(* may read either the value before or the value after it.                 *)
(***************************************************************************)
EXTENDS Integers, Sequences, FiniteSets

\* ------------------------------------------------------------------ bounds

\* Number of buffers the producer hands to push_image in one behaviour of
\* BufferSpec.
MaxBuffers == 3

\* Number of buffers the producer hands to push_image in one behaviour of
\* Spec.
MaxFrames == 1

\* Listeners registered for the loss of the device.
MaxListeners == 1

\* Structures in the caps of the device that find_input_caps is applied to.
MaxAvailable == 2

\* Structures in the caps wanted downstream.
MaxWanted == 1

\* Fourccs in the vector find_preferred_format is applied to.
MaxFormats == 3

\* Structures in the caps tcam_gst_find_largest_caps is applied to.
MaxStructures == 2

\* Buffers the sink hands to gst_tcam_mainsrc_sh_callback.
MaxImages == 2

\* Devices CaptureDeviceImpl::open_device is asked to open.
MaxDevices == 2

\* ------------------------------------------------------- program constants

TCAM_PIPELINE_UNDEFINED == "UNDEFINED"
TCAM_PIPELINE_STOPPED == "STOPPED"
TCAM_PIPELINE_PAUSED == "PAUSED"
TCAM_PIPELINE_PLAYING == "PLAYING"
TCAM_PIPELINE_ERROR == "ERROR"

TCAM_PIPELINE_STATUS ==
    { TCAM_PIPELINE_UNDEFINED, TCAM_PIPELINE_STOPPED, TCAM_PIPELINE_PAUSED,
      TCAM_PIPELINE_PLAYING, TCAM_PIPELINE_ERROR }

FILTER_TYPE_CONVERSION == "CONVERSION"
FILTER_TYPE_INTERPRET == "INTERPRET"

\* The filters known to the manager, in registration order.  Each entry is a
\* FilterDescription: name, type, input_fourcc and output_fourcc.
available_filter ==
    << [name |-> "autoexposure", type |-> FILTER_TYPE_INTERPRET,
        input_fourcc |-> <<0>>, output_fourcc |-> <<0>>],
       [name |-> "debayer", type |-> FILTER_TYPE_CONVERSION,
        input_fourcc |-> <<1>>, output_fourcc |-> <<2>>],
       [name |-> "convert", type |-> FILTER_TYPE_CONVERSION,
        input_fourcc |-> <<3>>, output_fourcc |-> <<2>>],
       [name |-> "whitebalance", type |-> FILTER_TYPE_INTERPRET,
        input_fourcc |-> <<0>>, output_fourcc |-> <<0>>] >>

\* Fourcc lists a device may report from get_available_video_formats().
DeviceFormatLists == { <<1>> }

\* Fourcc lists a device may report in ChainSpec: devices whose formats suit
\* one conversion filter, the other, or both.
ChainFormatLists == { <<1>>, <<3>>, <<1, 3>> }

\* Fourccs a caller may request through setVideoFormat.
RequestedFourccs == { 2 }

\* Targets the control thread passes to set_status.
StatusTargets == { TCAM_PIPELINE_STOPPED, TCAM_PIPELINE_PAUSED, TCAM_PIPELINE_PLAYING }

\* -------------------------------------------------------------- variables

VARIABLES
    status,                  \* PipelineManager::status
    source,                  \* TRUE iff source != nullptr
    sink,                    \* TRUE iff sink != nullptr
    source_status,           \* last status the ImageSource accepted
    sink_status,             \* last status the SinkInterface accepted
    property_filter_status,  \* last status given to property_filter
    filter_status,           \* last status each filter accepted
    available_input_formats, \* fourccs of the device formats
    input_format,            \* fourcc of input_format
    output_format,           \* fourcc of output_format
    source_format,           \* fourcc of the format the ImageSource holds
    filter_pipeline,         \* sequence of [name, in, out]
    m_entry_queue,           \* sequence of buffers
    m_mtx,                   \* holder of m_mtx: "free" or "worker"
    m_cv,                    \* TRUE iff a notification is pending for the waiting worker
    m_pipeline_thread,       \* position of the worker thread
    current_buffer,          \* run_pipeline's current_buffer, 0 when none
    ctl_pc,                  \* position of the control thread
    ctl_op,                  \* public operation in progress / last completed
    ctl_arg,                 \* target of the set_status in progress / last
    ctl_i,                   \* loop index of stop_playing's filter loop
    ctl_ret,                 \* value the last public operation returned
    stop_ret,                \* value stop_playing returned in this operation
    ctl_again,               \* the set_status in progress repeats the one before
    push_pc,                 \* position of the producer thread
    next_buffer,             \* next buffer the producer will push
    enqueued,                \* history: buffers in the order they were queued
    stopped_at,              \* history: Len(enqueued) when stop_playing last began
    delivered,               \* history: buffers in the order Sink received them
    terminated,              \* std::terminate was called
    is_running,              \* device_state::is_running of the tcammainsrc element
    device_lost_callback_data_, \* number of registered device-lost listeners
    lost_notified,           \* history: deviceindex_lost_cb has called the listeners
    eos_sent,                \* history: the element has sent its EOS event
    queue,                   \* device_state::queue of the tcammainsrc element
    create_pc,               \* gst_tcam_mainsrc_create: "idle", "waiting", "notified"
    create_ret,              \* value gst_tcam_mainsrc_create returned last
    sh_pc,                   \* gst_tcam_mainsrc_sh_callback: "idle", "push"
    sh_count,                \* calls of gst_tcam_mainsrc_sh_callback so far
    device,                  \* CaptureDeviceImpl::device: 0 when nullptr, else the device
    pipeline,                \* TRUE iff CaptureDeviceImpl::pipeline != nullptr
    open_device_info,        \* CaptureDeviceImpl::open_device_info, 0 for DeviceInfo()
    active_video_format,     \* format the open device holds, 0 for VideoFormat()
    api_op,                  \* operation of CaptureDeviceImpl called last
    api_ret,                 \* what that operation returned
    api_value,               \* the format it returned, 0 when it returns none
    null_dereference,        \* history: a null pipeline or device was dereferenced
    available_caps,          \* find_input_caps: caps of the device
    wanted_caps,             \* find_input_caps: caps the downstream elements want
    factories,               \* names gst_element_factory_find finds
    toggles,                 \* find_input_caps: input_caps_toggles
    modules,                 \* find_input_caps: input_caps_required_modules
    ret,                     \* value find_input_caps returned
    format_fourccs,          \* find_preferred_format: its argument
    preferred_fourcc,        \* value find_preferred_format returned
    incoming,                \* tcam_gst_find_largest_caps: its argument
    largest_caps,            \* value tcam_gst_find_largest_caps returned
    src_caps,                \* caps gst_tcam_mainsrc_negotiate set on the pad
    result,                  \* value gst_tcam_mainsrc_negotiate returned
    called                   \* the negotiation function that has been applied

vars ==
    << status, source, sink, source_status, sink_status, property_filter_status,
       filter_status, available_input_formats, input_format, output_format,
       source_format, filter_pipeline, m_entry_queue, m_mtx, m_cv, m_pipeline_thread,
       current_buffer, ctl_pc, ctl_op, ctl_arg, ctl_i, ctl_ret,
       stop_ret, ctl_again, push_pc, next_buffer, enqueued, stopped_at, delivered,
       terminated, is_running, device_lost_callback_data_, lost_notified,
       eos_sent, queue, create_pc, create_ret, sh_pc, sh_count, device, pipeline,
       open_device_info, active_video_format, api_op, api_ret, api_value,
       null_dereference, available_caps, wanted_caps, factories, toggles, modules, ret,
       format_fourccs, preferred_fourcc, incoming, largest_caps, src_caps, result, called >>

pipeline_vars ==
    << status, source, sink, source_status, sink_status, property_filter_status,
       filter_status, available_input_formats, input_format, output_format,
       source_format, filter_pipeline >>

worker_vars == << m_entry_queue, m_mtx, m_cv, m_pipeline_thread, current_buffer, delivered >>

mainsrc_vars == << queue, create_pc, create_ret, sh_pc, sh_count >>

device_vars ==
    << device, pipeline, open_device_info, active_video_format, api_op, api_ret,
       api_value, null_dereference >>

gst_vars ==
    << is_running, device_lost_callback_data_, lost_notified, eos_sent, mainsrc_vars,
       device_vars >>

caps_vars ==
    << available_caps, wanted_caps, factories, toggles, modules, ret,
       format_fourccs, preferred_fourcc, incoming, largest_caps, src_caps, result, called >>

producer_vars == << push_pc, next_buffer, enqueued, stopped_at >>

ctl_vars == << ctl_pc, ctl_op, ctl_arg, ctl_i, ctl_ret, stop_ret, ctl_again >>

FilterNames == { available_filter[i].name : i \in 1..Len(available_filter) }

\* The filters create_conversion_pipeline calls setVideoFormat of: those of
\* type CONVERSION.
ConversionNames ==
    { available_filter[i].name :
        i \in { k \in 1..Len(available_filter) :
                  available_filter[k].type = FILTER_TYPE_CONVERSION } }

Range(s) == { s[i] : i \in 1..Len(s) }

\* ------------------------------------------------------------------- Init

\* CaptureDeviceImpl::open_device has opened device 1 and made the
\* PipelineManager: the CaptureDeviceImpl that owns the pipeline of InitSession.
DeviceOpened ==
    /\ device = 1
    /\ pipeline = TRUE
    /\ open_device_info = 1
    /\ active_video_format = 0
    /\ api_op = "none"
    /\ api_ret = "none"
    /\ api_value = 0
    /\ null_dereference = FALSE

\* CaptureDeviceImpl(): no device, no pipeline.
DeviceClosed ==
    /\ device = 0
    /\ pipeline = FALSE
    /\ open_device_info = 0
    /\ active_video_format = 0
    /\ api_op = "none"
    /\ api_ret = "none"
    /\ api_value = 0
    /\ null_dereference = FALSE

InitPipelineManager ==
    /\ status = TCAM_PIPELINE_UNDEFINED
    /\ source = FALSE
    /\ sink = FALSE
    /\ source_status = TCAM_PIPELINE_UNDEFINED
    /\ sink_status = TCAM_PIPELINE_UNDEFINED
    /\ property_filter_status = TCAM_PIPELINE_UNDEFINED
    /\ filter_status = [n \in FilterNames |-> TCAM_PIPELINE_UNDEFINED]
    /\ available_input_formats = <<>>
    /\ input_format = 0
    /\ output_format = 0
    /\ source_format = 0
    /\ filter_pipeline = <<>>
    /\ m_entry_queue = <<>>
    /\ m_mtx = "free"
    /\ m_cv = FALSE
    /\ m_pipeline_thread = "none"
    /\ current_buffer = 0
    /\ ctl_pc = "idle"
    /\ ctl_op = "none"
    /\ ctl_arg = TCAM_PIPELINE_UNDEFINED
    /\ ctl_i = 0
    /\ ctl_ret = "none"
    /\ stop_ret = "none"
    /\ ctl_again = FALSE
    /\ push_pc = "idle"
    /\ next_buffer = 1
    /\ enqueued = <<>>
    /\ stopped_at = 0
    /\ delivered = <<>>
    /\ terminated = FALSE
    /\ is_running = FALSE
    /\ device_lost_callback_data_ = 0
    /\ lost_notified = FALSE
    /\ eos_sent = FALSE
    /\ queue = <<>>
    /\ create_pc = "idle"
    /\ create_ret = "none"
    /\ sh_pc = "idle"
    /\ sh_count = 0

InitSession == InitPipelineManager /\ DeviceOpened

\* No flag of input_caps_required_modules is set: reset_input_caps_modules.
reset_input_caps_modules ==
    [ bayertransform |-> FALSE, bayer2rgb |-> FALSE, videoconvert |-> FALSE,
      jpegdec |-> FALSE, dutils |-> FALSE ]

\* A GstCaps* is null, or the set caps of its structures.
NullCaps == [ null |-> TRUE, caps |-> {} ]

\* No negotiation function has been applied.
NoNegotiation ==
    /\ available_caps = {}
    /\ wanted_caps = {}
    /\ factories = {}
    /\ toggles = [ use_dutils |-> FALSE, use_by1xtransform |-> FALSE ]
    /\ modules = reset_input_caps_modules
    /\ ret = NullCaps
    /\ format_fourccs = <<>>
    /\ preferred_fourcc = 0
    /\ incoming = <<>>
    /\ largest_caps = NullCaps
    /\ src_caps = NullCaps
    /\ result = FALSE
    /\ called = "none"

Init == InitSession /\ NoNegotiation

\* ------------------------------------------------------ chain construction

\* isFilterApplicable: fourcc occurs in vec.
isFilterApplicable(fourcc, vec) == \E i \in 1..Len(vec) : vec[i] = fourcc

\* getDeviceFourcc: the fourccs of available_input_formats, in order.
getDeviceFourcc == available_input_formats

\* The inner loop of create_conversion_pipeline: some device fourcc is an
\* input fourcc of the filter.
filter_valid(device_fourcc, f) ==
    \E i \in 1..Len(device_fourcc) : isFilterApplicable(device_fourcc[i], f.input_fourcc)

\* The inner loop of create_conversion_pipeline: the first device fourcc the
\* filter accepts as input, or 0 (fourcc_to_use's initial value) when none.
fourcc_to_use(device_fourcc, f) ==
    IF filter_valid(device_fourcc, f)
    THEN device_fourcc[CHOOSE i \in 1..Len(device_fourcc) :
            /\ isFilterApplicable(device_fourcc[i], f.input_fourcc)
            /\ \A j \in 1..(i - 1) : ~isFilterApplicable(device_fourcc[j], f.input_fourcc)]
    ELSE 0

\* create_conversion_pipeline's loop over available_filter from index i on.
\* st = [input_format, filter_pipeline]; accepts is the set of filters whose
\* setVideoFormat returns true.
RECURSIVE conversion_loop(_, _, _, _, _)
conversion_loop(i, st, out, device_fourcc, accepts) ==
    IF i > Len(available_filter) THEN st
    ELSE LET f == available_filter[i]
             use == fourcc_to_use(device_fourcc, f)
             valid == filter_valid(device_fourcc, f)
             applicable == /\ f.type = FILTER_TYPE_CONVERSION
                           /\ isFilterApplicable(out, f.output_fourcc)
             next == IF ~applicable THEN st
                     ELSE [input_format |-> use,
                           filter_pipeline |->
                               IF valid /\ f.name \in accepts
                               THEN Append(st.filter_pipeline,
                                           [name |-> f.name, in |-> use, out |-> out])
                               ELSE st.filter_pipeline]
         IN conversion_loop(i + 1, next, out, device_fourcc, accepts)

\* create_conversion_pipeline, called with an empty filter_pipeline: the new
\* input_format and filter_pipeline.
create_conversion_pipeline(accepts) ==
    conversion_loop(1, [input_format |-> output_format, filter_pipeline |-> <<>>],
                    output_format, getDeviceFourcc, accepts)

\* add_interpretation_filter's loop over available_filter from index i on:
\* every filter of type INTERPRET that takes every format or input_format is
\* bound to input_format on both sides, the value of setVideoFormat ignored,
\* and inserted at filter_pipeline.begin().
RECURSIVE interpretation_loop(_, _)
interpretation_loop(i, filters) ==
    IF i > Len(available_filter) THEN filters
    ELSE LET f == available_filter[i]
             all_formats == Len(f.input_fourcc) = 1 /\ f.input_fourcc[1] = 0
             usable == /\ f.type = FILTER_TYPE_INTERPRET
                       /\ \/ all_formats
                          \/ isFilterApplicable(input_format, f.input_fourcc)
         IN  interpretation_loop(
                 i + 1,
                 IF usable
                 THEN << [name |-> f.name, in |-> input_format, out |-> input_format] >>
                          \o filters
                 ELSE filters)

\* validate_pipeline's loop over filter_pipeline from index i on: in_format is
\* the output format of the element before.
RECURSIVE validate_loop(_, _)
validate_loop(i, in_format) ==
    IF i > Len(filter_pipeline) THEN in_format = output_format
    ELSE IF filter_pipeline[i].in # in_format THEN FALSE
    ELSE validate_loop(i + 1, filter_pipeline[i].out)

\* validate_pipeline: source and sink are set, the format of the source is
\* input_format, every filter takes what the element before it puts out, and
\* the last element puts out output_format.
validate_pipeline ==
    /\ source /\ sink
    /\ source_format = input_format
    /\ validate_loop(1, source_format)

\* m_cv.notify_all(): a thread waiting on m_cv is notified; with no waiting
\* thread the call has no effect.
notify_all == m_pipeline_thread = "wait_for"

\* ------------------------------------------------------ the control thread

\* The public operation op returns val to its caller.  destroyPipeline goes
\* on after the set_status call it makes has returned.
Return(op, val) ==
    /\ ctl_ret' = val
    /\ ctl_pc' = IF op = "destroyPipeline" THEN "destroy_clear"
                ELSE IF op = "stop_and_clear" THEN "caps_format"
                ELSE IF op = "set_caps" THEN "caps_running"
                ELSE "return"

\* set_status_entry without the comparison of status with s: every call
\* assigns the status and goes on.
set_status_entry_unguarded(op, s) ==
    /\ ctl_arg' = s
    /\ status' = s
    /\ IF s = TCAM_PIPELINE_PLAYING
       THEN ctl_pc' = "create_pipeline" /\ UNCHANGED ctl_ret
       ELSE IF s = TCAM_PIPELINE_STOPPED
       THEN ctl_pc' = "stop_status" /\ UNCHANGED ctl_ret
       ELSE Return(op, "true")

\* The entry of set_status(s), called by op: the comparison and the
\* assignment of status, up to the first call set_status makes.
set_status_entry(op, s) ==
    /\ ctl_arg' = s
    /\ IF status = s
       THEN /\ Return(op, "true")
            /\ UNCHANGED status
       ELSE /\ status' = s
            /\ IF s = TCAM_PIPELINE_PLAYING
               THEN ctl_pc' = "create_pipeline" /\ UNCHANGED ctl_ret
               ELSE IF s = TCAM_PIPELINE_STOPPED
               THEN ctl_pc' = "stop_status" /\ UNCHANGED ctl_ret
               ELSE Return(op, "true")

\* The control thread calls the public operation op.
Call(op) ==
    /\ ~terminated
    /\ ctl_pc = "idle"
    /\ ctl_op' = op
    /\ UNCHANGED << ctl_i, stop_ret, ctl_again >>

\* A later step of the operation in progress.
Step(pc) ==
    /\ ~terminated
    /\ ctl_pc = pc
    /\ UNCHANGED << ctl_op, ctl_arg, ctl_again >>

set_status(s) ==
    /\ Call("set_status")
    /\ set_status_entry("set_status", s)
    /\ UNCHANGED << source, sink, source_status, sink_status, property_filter_status,
                    filter_status, available_input_formats, input_format,
                    output_format, source_format, filter_pipeline >>
    /\ UNCHANGED << worker_vars, producer_vars, terminated, gst_vars, caps_vars >>

\* create_failed leaving the status as set_status assigned it.
create_failed_keeps_status(op) ==
    /\ UNCHANGED status
    /\ Return(op, "false")

\* set_status(PLAYING), called by op, when create_pipeline has returned false:
\* status = ERROR; return false.
create_failed(op) ==
    /\ status' = TCAM_PIPELINE_ERROR
    /\ Return(op, "false")

\* create_pipeline, called by set_status(PLAYING); on failure set_status sets
\* status to ERROR and returns false.  source_ok, sink_ok and buffers_ok are
\* the results of source->setVideoFormat(input_format),
\* sink->setVideoFormat(output_format) and source->set_buffer_collection.
create_pipeline ==
    /\ Step("create_pipeline")
    /\ \E accepts \in SUBSET ConversionNames, source_ok \in BOOLEAN, sink_ok \in BOOLEAN,
          buffers_ok \in BOOLEAN :
         LET conv == create_conversion_pipeline(accepts) IN
         IF ~source \/ ~sink
         THEN /\ create_failed(ctl_op)
              /\ UNCHANGED << input_format, filter_pipeline, source_format >>
         ELSE /\ filter_pipeline' = conv.filter_pipeline
              /\ input_format' = conv.input_format
              /\ source_format' = IF source_ok THEN conv.input_format ELSE source_format
              /\ IF source_ok /\ sink_ok /\ buffers_ok
                 THEN /\ ctl_pc' = "start_sink"
                      /\ UNCHANGED << status, ctl_ret >>
                 ELSE create_failed(ctl_op)
    /\ UNCHANGED << source, sink, source_status, sink_status, property_filter_status,
                    filter_status, available_input_formats, output_format,
                    ctl_i, stop_ret >>
    /\ UNCHANGED << worker_vars, producer_vars, terminated, gst_vars, caps_vars >>

\* start_playing: set_sink_status(PLAYING).
start_sink ==
    /\ Step("start_sink")
    /\ \E ok \in BOOLEAN :
         IF sink /\ ok
         THEN sink_status' = TCAM_PIPELINE_PLAYING /\ ctl_pc' = "start_source"
         ELSE UNCHANGED sink_status /\ ctl_pc' = "stop_status"
    /\ UNCHANGED << status, source, sink, source_status, property_filter_status,
                    filter_status, available_input_formats, input_format,
                    output_format, source_format, filter_pipeline,
                    ctl_i, ctl_ret, stop_ret >>
    /\ UNCHANGED << worker_vars, producer_vars, terminated, gst_vars, caps_vars >>

\* start_source going on to status = PLAYING when the source refuses.
start_source_refusal_ignored ==
    /\ Step("start_source")
    /\ \E ok \in BOOLEAN :
         IF source /\ ok
         THEN source_status' = TCAM_PIPELINE_PLAYING /\ ctl_pc' = "start_status"
         ELSE UNCHANGED source_status /\ ctl_pc' = "start_status"
    /\ UNCHANGED << status, source, sink, sink_status, property_filter_status,
                    filter_status, available_input_formats, input_format,
                    output_format, source_format, filter_pipeline,
                    ctl_i, ctl_ret, stop_ret >>
    /\ UNCHANGED << worker_vars, producer_vars, terminated, gst_vars, caps_vars >>

\* start_playing: set_source_status(PLAYING).
start_source ==
    /\ Step("start_source")
    /\ \E ok \in BOOLEAN :
         IF source /\ ok
         THEN source_status' = TCAM_PIPELINE_PLAYING /\ ctl_pc' = "start_status"
         ELSE UNCHANGED source_status /\ ctl_pc' = "stop_status"
    /\ UNCHANGED << status, source, sink, sink_status, property_filter_status,
                    filter_status, available_input_formats, input_format,
                    output_format, source_format, filter_pipeline,
                    ctl_i, ctl_ret, stop_ret >>
    /\ UNCHANGED << worker_vars, producer_vars, terminated, gst_vars, caps_vars >>

\* start_playing: property_filter->setStatus(PLAYING); status = PLAYING.
start_status ==
    /\ Step("start_status")
    /\ property_filter_status' = TCAM_PIPELINE_PLAYING
    /\ status' = TCAM_PIPELINE_PLAYING
    /\ ctl_pc' = "start_thread"
    /\ UNCHANGED << source, sink, source_status, sink_status,
                    filter_status, available_input_formats, input_format,
                    output_format, source_format, filter_pipeline,
                    ctl_i, ctl_ret, stop_ret >>
    /\ UNCHANGED << worker_vars, producer_vars, terminated, gst_vars, caps_vars >>

\* start_playing: m_pipeline_thread = std::thread(run_pipeline).  Assigning to
\* a std::thread that is still joinable calls std::terminate.
start_thread ==
    /\ Step("start_thread")
    /\ IF m_pipeline_thread = "none"
       THEN /\ m_pipeline_thread' = "lock"
            /\ Return(ctl_op, "true")
            /\ UNCHANGED terminated
       ELSE /\ terminated' = TRUE
            /\ UNCHANGED << m_pipeline_thread, ctl_pc, ctl_ret >>
    /\ UNCHANGED << pipeline_vars, ctl_i, stop_ret >>
    /\ UNCHANGED << m_entry_queue, m_mtx, m_cv, current_buffer, delivered >>
    /\ UNCHANGED << producer_vars, gst_vars, caps_vars >>

\* stop_playing returns val: to start_playing, which then returns false to
\* set_status, or to set_status itself.  set_status ignores both values and
\* returns true.
stop_return(val) ==
    /\ stop_ret' = val
    /\ Return(ctl_op, "true")

\* stop_playing: status = STOPPED; m_cv.notify_all().
stop_status ==
    /\ Step("stop_status")
    /\ status' = TCAM_PIPELINE_STOPPED
    /\ m_cv' = notify_all
    /\ ctl_pc' = "stop_source"
    /\ stopped_at' = Len(enqueued)
    /\ UNCHANGED << source, sink, source_status, sink_status, property_filter_status,
                    filter_status, available_input_formats, input_format,
                    output_format, source_format, filter_pipeline,
                    ctl_i, ctl_ret, stop_ret >>
    /\ UNCHANGED << m_entry_queue, m_mtx, m_pipeline_thread, current_buffer, delivered >>
    /\ UNCHANGED << push_pc, next_buffer, enqueued, terminated, gst_vars, caps_vars >>

\* stop_source going on to the filters and the sink when the source refuses,
\* the way stop_playing treats a refusal of the sink.
stop_source_refusal_ignored ==
    /\ Step("stop_source")
    /\ \E ok \in BOOLEAN :
         source_status' = IF source /\ ok THEN TCAM_PIPELINE_STOPPED ELSE source_status
    /\ ctl_pc' = "stop_filter"
    /\ ctl_i' = 1
    /\ UNCHANGED << ctl_ret, stop_ret >>
    /\ UNCHANGED << status, source, sink, sink_status, property_filter_status,
                    filter_status, available_input_formats, input_format,
                    output_format, source_format, filter_pipeline >>
    /\ UNCHANGED << worker_vars, producer_vars, terminated, gst_vars, caps_vars >>

\* stop_playing: set_source_status(STOPPED); a refusal returns false at once.
stop_source ==
    /\ Step("stop_source")
    /\ \E ok \in BOOLEAN :
         IF source /\ ok
         THEN /\ source_status' = TCAM_PIPELINE_STOPPED
              /\ ctl_pc' = "stop_filter"
              /\ ctl_i' = 1
              /\ UNCHANGED << ctl_ret, stop_ret >>
         ELSE /\ stop_return("false")
              /\ UNCHANGED << source_status, ctl_i >>
    /\ UNCHANGED << status, source, sink, sink_status, property_filter_status,
                    filter_status, available_input_formats, input_format,
                    output_format, source_format, filter_pipeline >>
    /\ UNCHANGED << worker_vars, producer_vars, terminated, gst_vars, caps_vars >>

\* stop_playing: one iteration of the loop over filter_pipeline,
\* f->setStatus(STOPPED); a refusal returns false at once.
stop_filter ==
    /\ Step("stop_filter")
    /\ ctl_i <= Len(filter_pipeline)
    /\ \E ok \in BOOLEAN :
         IF ok
         THEN /\ filter_status' =
                    [filter_status EXCEPT ![filter_pipeline[ctl_i].name] = TCAM_PIPELINE_STOPPED]
              /\ ctl_i' = ctl_i + 1
              /\ UNCHANGED << ctl_pc, ctl_ret, stop_ret >>
         ELSE /\ stop_return("false")
              /\ ctl_i' = 0
              /\ UNCHANGED filter_status
    /\ UNCHANGED << status, source, sink, source_status, sink_status,
                    property_filter_status, available_input_formats, input_format,
                    output_format, source_format, filter_pipeline >>
    /\ UNCHANGED << worker_vars, producer_vars, terminated, gst_vars, caps_vars >>

\* stop_playing: set_sink_status(STOPPED), its result ignored, and
\* property_filter->setStatus(STOPPED).
stop_sink ==
    /\ Step("stop_filter")
    /\ ctl_i > Len(filter_pipeline)
    /\ \E ok \in BOOLEAN :
         sink_status' = IF sink /\ ok THEN TCAM_PIPELINE_STOPPED ELSE sink_status
    /\ property_filter_status' = TCAM_PIPELINE_STOPPED
    /\ ctl_pc' = "stop_join"
    /\ ctl_i' = 0
    /\ UNCHANGED << status, source, sink, source_status,
                    filter_status, available_input_formats, input_format,
                    output_format, source_format, filter_pipeline,
                    ctl_ret, stop_ret >>
    /\ UNCHANGED << worker_vars, producer_vars, terminated, gst_vars, caps_vars >>

\* stop_join without the join: stop_playing returns true while the worker
\* may still be running.
stop_join_skipped ==
    /\ Step("stop_join")
    /\ stop_return("true")
    /\ UNCHANGED << pipeline_vars, ctl_i >>
    /\ UNCHANGED << m_entry_queue, m_mtx, m_cv, m_pipeline_thread, current_buffer,
                    delivered >>
    /\ UNCHANGED << producer_vars, terminated, gst_vars, caps_vars >>

\* stop_playing: if (m_pipeline_thread.joinable()) m_pipeline_thread.join().
\* join blocks until run_pipeline has returned.
stop_join ==
    /\ Step("stop_join")
    /\ m_pipeline_thread \in { "none", "exited" }
    /\ m_pipeline_thread' = "none"
    /\ stop_return("true")
    /\ UNCHANGED << pipeline_vars, ctl_i >>
    /\ UNCHANGED << m_entry_queue, m_mtx, m_cv, current_buffer, delivered >>
    /\ UNCHANGED << producer_vars, terminated, gst_vars, caps_vars >>

\* destroyPipeline: set_status(STOPPED) ...
destroyPipeline ==
    /\ Call("destroyPipeline")
    /\ set_status_entry("destroyPipeline", TCAM_PIPELINE_STOPPED)
    /\ UNCHANGED << source, sink, source_status, sink_status, property_filter_status,
                    filter_status, available_input_formats, input_format,
                    output_format, source_format, filter_pipeline >>
    /\ UNCHANGED << worker_vars, producer_vars, terminated, gst_vars, caps_vars >>

\* ... destroyPipeline: source = nullptr; sink = nullptr; return true.
destroy_clear ==
    /\ Step("destroy_clear")
    /\ source' = FALSE
    /\ sink' = FALSE
    /\ ctl_pc' = "return"
    /\ ctl_ret' = "true"
    /\ UNCHANGED << status, source_status, sink_status, property_filter_status,
                    filter_status, available_input_formats, input_format,
                    output_format, source_format, filter_pipeline,
                    ctl_i, stop_ret >>
    /\ UNCHANGED << worker_vars, producer_vars, terminated, gst_vars, caps_vars >>

\* setSource(device): formats are the fourccs the device reports.  A new
\* ImageSource and a new PropertyFilter replace the old ones.
setSource(formats) ==
    /\ Call("setSource")
    /\ IF status = TCAM_PIPELINE_PLAYING \/ status = TCAM_PIPELINE_PAUSED
       THEN /\ ctl_ret' = "false"
            /\ UNCHANGED << available_input_formats, source, source_status,
                            source_format, property_filter_status >>
       ELSE /\ available_input_formats' = formats
            /\ source' = TRUE
            /\ source_status' = TCAM_PIPELINE_UNDEFINED
            /\ source_format' = 0
            /\ property_filter_status' = TCAM_PIPELINE_UNDEFINED
            /\ ctl_ret' = IF formats = <<>> THEN "false" ELSE "true"
    /\ ctl_pc' = "return"
    /\ UNCHANGED << status, sink, sink_status, filter_status, input_format,
                    output_format, filter_pipeline, ctl_arg >>
    /\ UNCHANGED << worker_vars, producer_vars, terminated, gst_vars, caps_vars >>

\* setSink_body without the test of status: the sink is replaced in every
\* status.
setSink_body_unguarded ==
    /\ sink' = TRUE
    /\ sink_status' = TCAM_PIPELINE_UNDEFINED

\* The body of setSink(s): the sink handed in replaces the old one.
setSink_body ==
    IF status = TCAM_PIPELINE_PLAYING \/ status = TCAM_PIPELINE_PAUSED
    THEN UNCHANGED << sink, sink_status >>
    ELSE /\ sink' = TRUE
         /\ sink_status' = TCAM_PIPELINE_UNDEFINED

\* The value setSink(s) returns.
setSink_result ==
    IF status = TCAM_PIPELINE_PLAYING \/ status = TCAM_PIPELINE_PAUSED
    THEN "false" ELSE "true"

setSink ==
    /\ Call("setSink")
    /\ setSink_body
    /\ ctl_ret' = setSink_result
    /\ ctl_pc' = "return"
    /\ UNCHANGED << status, source, source_status, property_filter_status,
                    filter_status, available_input_formats, input_format,
                    output_format, source_format, filter_pipeline, ctl_arg >>
    /\ UNCHANGED << worker_vars, producer_vars, terminated, gst_vars, caps_vars >>

\* setVideoFormat(f): output_format = f; return true.
setVideoFormat(f) ==
    /\ Call("setVideoFormat")
    /\ output_format' = f
    /\ ctl_ret' = "true"
    /\ ctl_pc' = "return"
    /\ UNCHANGED << status, source, sink, source_status, sink_status,
                    property_filter_status, filter_status, available_input_formats,
                    input_format, source_format, filter_pipeline, ctl_arg >>
    /\ UNCHANGED << worker_vars, producer_vars, terminated, gst_vars, caps_vars >>

\* CaptureDeviceImpl::start_stream(sink) on an open device:
\* pipeline->setSink(sink), then pipeline->set_status(PLAYING).
start_stream ==
    /\ Call("start_stream")
    /\ setSink_body
    /\ IF setSink_result = "false"
       THEN ctl_ret' = "false" /\ ctl_pc' = "return"
       ELSE ctl_pc' = "stream_set_status" /\ UNCHANGED ctl_ret
    /\ UNCHANGED << status, source, source_status, property_filter_status,
                    filter_status, available_input_formats, input_format,
                    output_format, source_format, filter_pipeline, ctl_arg >>
    /\ UNCHANGED << worker_vars, producer_vars, terminated, gst_vars, caps_vars >>

stream_set_status ==
    /\ ~terminated
    /\ ctl_pc = "stream_set_status"
    /\ set_status_entry(ctl_op, TCAM_PIPELINE_PLAYING)
    /\ UNCHANGED << source, sink, source_status, sink_status, property_filter_status,
                    filter_status, available_input_formats, input_format,
                    output_format, source_format, filter_pipeline,
                    ctl_op, ctl_i, stop_ret, ctl_again >>
    /\ UNCHANGED << worker_vars, producer_vars, terminated, gst_vars, caps_vars >>

\* set_status(s) has returned and the caller calls set_status(s) again, with
\* the same target, before anything else.
set_status_again ==
    /\ ~terminated
    /\ ctl_pc = "return"
    /\ ctl_op = "set_status"
    /\ set_status_entry("set_status", ctl_arg)
    /\ stop_ret' = "none"
    /\ ctl_again' = TRUE
    /\ UNCHANGED << source, sink, source_status, sink_status, property_filter_status,
                    filter_status, available_input_formats, input_format,
                    output_format, source_format, filter_pipeline, ctl_op, ctl_i >>
    /\ UNCHANGED << worker_vars, producer_vars, terminated, gst_vars, caps_vars >>

\* The public operation in progress has returned to its caller; the control
\* thread is free to make the next call.
returned ==
    /\ ~terminated
    /\ ctl_pc = "return"
    /\ ctl_pc' = "idle"
    /\ ctl_op' = "none"
    /\ ctl_arg' = TCAM_PIPELINE_UNDEFINED
    /\ ctl_ret' = "none"
    /\ stop_ret' = "none"
    /\ ctl_again' = FALSE
    /\ UNCHANGED << pipeline_vars, ctl_i, worker_vars, producer_vars, terminated, gst_vars, caps_vars >>

\* ------------------------------------------------------- the worker thread

\* run_pipeline: std::unique_lock lock(m_mtx) at the top of the outer loop.
worker_lock ==
    /\ ~terminated
    /\ m_pipeline_thread = "lock"
    /\ m_mtx = "free"
    /\ m_mtx' = "worker"
    /\ m_pipeline_thread' = "while"
    /\ UNCHANGED << pipeline_vars, ctl_vars, producer_vars, terminated, gst_vars, caps_vars >>
    /\ UNCHANGED << m_entry_queue, m_cv, current_buffer, delivered >>

\* run_pipeline: the condition of the inner while loop; when it holds,
\* m_cv.wait_for releases m_mtx.
worker_while ==
    /\ ~terminated
    /\ m_pipeline_thread = "while"
    /\ IF status = TCAM_PIPELINE_PLAYING /\ m_entry_queue = <<>>
       THEN m_pipeline_thread' = "wait_for" /\ m_mtx' = "free"
       ELSE m_pipeline_thread' = "check" /\ UNCHANGED m_mtx
    /\ m_cv' = FALSE
    /\ UNCHANGED << pipeline_vars, ctl_vars, producer_vars, terminated, gst_vars, caps_vars >>
    /\ UNCHANGED << m_entry_queue, current_buffer, delivered >>

\* run_pipeline: m_cv.wait_for returns (a notification, the 500 ms timeout,
\* or a spurious wake-up) after re-acquiring m_mtx.
worker_wake ==
    /\ ~terminated
    /\ m_pipeline_thread = "wait_for"
    /\ m_mtx = "free"
    /\ m_mtx' = "worker"
    /\ m_pipeline_thread' = "while"
    /\ m_cv' = FALSE
    /\ UNCHANGED << pipeline_vars, ctl_vars, producer_vars, terminated, gst_vars, caps_vars >>
    /\ UNCHANGED << m_entry_queue, current_buffer, delivered >>

\* The buffer run_pipeline takes from the queue: m_entry_queue.front().
queue_front(q) == Head(q)

\* The queue after m_entry_queue.pop().
queue_pop(q) == Tail(q)

\* run_pipeline after the inner loop: return, releasing the lock, when status
\* is not PLAYING.
worker_check ==
    /\ ~terminated
    /\ m_pipeline_thread = "check"
    /\ IF status # TCAM_PIPELINE_PLAYING
       THEN m_pipeline_thread' = "exited" /\ m_mtx' = "free"
       ELSE m_pipeline_thread' = "take" /\ UNCHANGED m_mtx
    /\ UNCHANGED << pipeline_vars, ctl_vars, producer_vars, terminated, gst_vars, caps_vars >>
    /\ UNCHANGED << m_entry_queue, current_buffer, m_cv, delivered >>

\* worker_take keeping m_mtx locked while the buffer is processed.
worker_take_keeps_lock ==
    /\ ~terminated
    /\ m_pipeline_thread = "take"
    /\ IF m_entry_queue = <<>>
       THEN /\ m_pipeline_thread' = "lock"
            /\ m_mtx' = "free"
            /\ UNCHANGED << m_entry_queue, current_buffer >>
       ELSE /\ current_buffer' = queue_front(m_entry_queue)
            /\ m_entry_queue' = queue_pop(m_entry_queue)
            /\ m_pipeline_thread' = "apply"
            /\ UNCHANGED m_mtx
    /\ UNCHANGED << pipeline_vars, ctl_vars, producer_vars, terminated, gst_vars, caps_vars >>
    /\ UNCHANGED << m_cv, delivered >>

\* run_pipeline after the test of status: continue when the queue is empty,
\* else take the front buffer.  The lock is released on both ways out of the
\* block.
worker_take ==
    /\ ~terminated
    /\ m_pipeline_thread = "take"
    /\ m_mtx' = "free"
    /\ IF m_entry_queue = <<>>
       THEN /\ m_pipeline_thread' = "lock"
            /\ UNCHANGED << m_entry_queue, current_buffer >>
       ELSE /\ current_buffer' = queue_front(m_entry_queue)
            /\ m_entry_queue' = queue_pop(m_entry_queue)
            /\ m_pipeline_thread' = "apply"
    /\ UNCHANGED << pipeline_vars, ctl_vars, producer_vars, terminated, gst_vars, caps_vars >>
    /\ UNCHANGED << m_cv, delivered >>

\* run_pipeline: property_filter->apply(current_buffer).
worker_apply ==
    /\ ~terminated
    /\ m_pipeline_thread = "apply"
    /\ m_pipeline_thread' = "push"
    /\ UNCHANGED << pipeline_vars, ctl_vars, producer_vars, terminated, gst_vars, caps_vars >>
    /\ UNCHANGED << m_entry_queue, m_mtx, m_cv, current_buffer, delivered >>

\* run_pipeline: sink->push_image(current_buffer) when sink is not null; the
\* buffer goes out of scope at the end of the iteration.
worker_push ==
    /\ ~terminated
    /\ m_pipeline_thread = "push"
    /\ delivered' = IF sink THEN Append(delivered, current_buffer) ELSE delivered
    /\ current_buffer' = 0
    /\ m_pipeline_thread' = "lock"
    /\ UNCHANGED << pipeline_vars, ctl_vars, producer_vars, terminated, gst_vars, caps_vars >>
    /\ UNCHANGED << m_entry_queue, m_mtx, m_cv >>

\* ----------------------------------------------------- the producer thread

\* queue_push putting the buffer at the head of the queue.
queue_push_front(q, buffer) == << buffer >> \o q

\* The queue after m_entry_queue.push(buffer).
queue_push(q, buffer) == Append(q, buffer)

\* push_accepts taking buffers in status PLAYING only.
push_accepts_playing_only == status = TCAM_PIPELINE_PLAYING

\* push_image(buffer) accepts the buffer: status is not STOPPED.
push_accepts == status # TCAM_PIPELINE_STOPPED

\* push_image: the unlocked test of status; a rejected buffer is dropped.
\* The caller is the ImageSource that setSource attached (source->setSink
\* hands it the manager); it calls push_image at most max times.
push_image_check(max) ==
    /\ ~terminated
    /\ source
    /\ push_pc = "idle"
    /\ next_buffer <= max
    /\ IF push_accepts
       THEN push_pc' = "enqueue" /\ UNCHANGED next_buffer
       ELSE next_buffer' = next_buffer + 1 /\ UNCHANGED push_pc
    /\ UNCHANGED << pipeline_vars, ctl_vars, worker_vars, enqueued, stopped_at, terminated,
                    gst_vars, caps_vars >>

\* push_image: under m_mtx, m_entry_queue.push(buffer); m_cv.notify_all().
push_image_enqueue ==
    /\ ~terminated
    /\ push_pc = "enqueue"
    /\ m_mtx = "free"
    /\ m_entry_queue' = queue_push(m_entry_queue, next_buffer)
    /\ enqueued' = Append(enqueued, next_buffer)
    /\ m_cv' = notify_all
    /\ next_buffer' = next_buffer + 1
    /\ push_pc' = "idle"
    /\ UNCHANGED << pipeline_vars, ctl_vars, stopped_at, terminated, gst_vars, caps_vars >>
    /\ UNCHANGED << m_mtx, m_pipeline_thread, current_buffer, delivered >>

\* ------------------------------------------------ the tcammainsrc element

\* CaptureDeviceImpl::register_device_lost_callback on an open device: the
\* listener is appended to device_lost_callback_data_.  gst_tcam_mainsrc_init_camera
\* registers gst_tcam_mainsrc_device_lost_callback this way.
register_device_lost_callback(max) ==
    /\ ~terminated
    /\ source
    /\ device_lost_callback_data_ < max
    /\ device_lost_callback_data_' = device_lost_callback_data_ + 1
    /\ UNCHANGED << pipeline_vars, ctl_vars, worker_vars, producer_vars, terminated,
                    is_running, lost_notified, eos_sent, mainsrc_vars, device_vars, caps_vars >>

\* gst_tcam_mainsrc_set_caps, first part: device->stop_and_clear(), which
\* stops the stream of the open device with
\* CaptureDeviceImpl::stop_stream = pipeline->set_status(STOPPED).
gst_tcam_mainsrc_set_caps ==
    /\ Call("stop_and_clear")
    /\ source
    /\ set_status_entry("stop_and_clear", TCAM_PIPELINE_STOPPED)
    /\ UNCHANGED << source, sink, source_status, sink_status, property_filter_status,
                    filter_status, available_input_formats, input_format,
                    output_format, source_format, filter_pipeline >>
    /\ UNCHANGED << worker_vars, producer_vars, terminated, gst_vars, caps_vars >>

\* gst_tcam_mainsrc_set_caps after stop_and_clear:
\* dev->set_video_format(f), which is pipeline->setVideoFormat(f) and then the
\* answer ok of the device; FALSE is returned when the device refuses.
\* Otherwise dev->start_stream(sink): pipeline->setSink(sink) and, when that
\* succeeded, pipeline->set_status(PLAYING).  The value of start_stream is
\* not looked at.
set_caps_format(f, ok) ==
    /\ ~terminated
    /\ ctl_pc = "caps_format"
    /\ ctl_op' = "set_caps"
    /\ output_format' = f
    /\ IF ~ok
       THEN /\ ctl_ret' = "false"
            /\ ctl_pc' = "return"
            /\ UNCHANGED << sink, sink_status >>
       ELSE /\ setSink_body
            /\ IF setSink_result = "false"
               THEN ctl_pc' = "caps_running"
               ELSE ctl_pc' = "stream_set_status"
            /\ UNCHANGED ctl_ret
    /\ UNCHANGED << status, source, source_status, property_filter_status,
                    filter_status, available_input_formats, input_format,
                    source_format, filter_pipeline,
                    ctl_arg, ctl_i, stop_ret, ctl_again >>
    /\ UNCHANGED << worker_vars, producer_vars, terminated, gst_vars, caps_vars >>

\* gst_tcam_mainsrc_set_caps, the end: is_running = true; return TRUE.
set_caps_running ==
    /\ Step("caps_running")
    /\ is_running' = TRUE
    /\ ctl_ret' = "true"
    /\ ctl_pc' = "return"
    /\ UNCHANGED << pipeline_vars, ctl_i, stop_ret >>
    /\ UNCHANGED << worker_vars, producer_vars, terminated,
                    device_lost_callback_data_, lost_notified, eos_sent, mainsrc_vars,
                    device_vars, caps_vars >>

\* device_state::cv.notify_all(): a gst_tcam_mainsrc_create waiting on cv is
\* notified; with no waiting thread the call has no effect.
cv_notify_all == IF create_pc = "waiting" THEN "notified" ELSE create_pc

\* gst_tcam_mainsrc_device_lost_callback: nothing when the element is not
\* running; otherwise the errors are posted, is_running = false and the EOS
\* event is sent.  The stream is not stopped.  The function itself does not
\* notify cv; the base class, which is handed the EOS event, is taken to call
\* the unlock function of the element, so that a waiting create is notified.
gst_tcam_mainsrc_device_lost_callback ==
    IF is_running
    THEN /\ is_running' = FALSE
         /\ eos_sent' = TRUE
         /\ create_pc' = cv_notify_all
         /\ UNCHANGED << queue, create_ret, sh_pc, sh_count >>
    ELSE UNCHANGED << is_running, eos_sent, mainsrc_vars >>

\* CaptureDeviceImpl::deviceindex_lost_cb: the device reports its loss and
\* every listener in device_lost_callback_data_ is called.
deviceindex_lost_cb ==
    /\ ~terminated
    /\ source
    /\ IF device_lost_callback_data_ > 0
       THEN /\ gst_tcam_mainsrc_device_lost_callback
            /\ lost_notified' = TRUE
       ELSE UNCHANGED << is_running, eos_sent, lost_notified, mainsrc_vars >>
    /\ UNCHANGED << pipeline_vars, ctl_vars, worker_vars, producer_vars, terminated,
                    device_lost_callback_data_, device_vars, caps_vars >>

\* gst_tcam_mainsrc_create, its entry: under device_state::mtx, with n_buffers
\* at its default -1, the first statement of the loop is cv.wait(lck), which
\* gives up the mutex and waits, whatever the queue holds.
gst_tcam_mainsrc_create ==
    /\ ~terminated
    /\ create_pc = "idle"
    /\ create_pc' = "waiting"
    /\ create_ret' = "none"
    /\ UNCHANGED << pipeline_vars, ctl_vars, worker_vars, producer_vars, terminated,
                    is_running, device_lost_callback_data_, lost_notified, eos_sent,
                    queue, sh_pc, sh_count, device_vars, caps_vars >>

\* cv.wait may return without a notification.
spurious_wakeup ==
    /\ ~terminated
    /\ create_pc = "waiting"
    /\ create_pc' = "notified"
    /\ UNCHANGED << pipeline_vars, ctl_vars, worker_vars, producer_vars, terminated,
                    is_running, device_lost_callback_data_, lost_notified, eos_sent,
                    queue, create_ret, sh_pc, sh_count, device_vars, caps_vars >>

\* gst_tcam_mainsrc_create after cv.wait has returned, the mutex held again:
\* GST_FLOW_EOS when is_running is false, the head of the queue when there is
\* one, otherwise the next cv.wait.
create_wake ==
    /\ ~terminated
    /\ create_pc = "notified"
    /\ IF ~is_running
       THEN /\ create_ret' = "GST_FLOW_EOS"
            /\ create_pc' = "idle"
            /\ UNCHANGED queue
       ELSE IF queue # << >>
       THEN /\ queue' = Tail(queue)
            /\ create_ret' = "GST_FLOW_OK"
            /\ create_pc' = "idle"
       ELSE /\ create_pc' = "waiting"
            /\ UNCHANGED << queue, create_ret >>
    /\ UNCHANGED << pipeline_vars, ctl_vars, worker_vars, producer_vars, terminated,
                    is_running, device_lost_callback_data_, lost_notified, eos_sent,
                    sh_pc, sh_count, device_vars, caps_vars >>

\* gst_tcam_mainsrc_sh_callback, the test of is_running without the mutex:
\* the buffer is dropped when the element is not running.  The sink that
\* set_caps made calls it, at most max times.
sh_callback_check(max) ==
    /\ ~terminated
    /\ sink
    /\ sh_pc = "idle"
    /\ sh_count < max
    /\ IF is_running
       THEN sh_pc' = "push" /\ UNCHANGED sh_count
       ELSE sh_count' = sh_count + 1 /\ UNCHANGED sh_pc
    /\ UNCHANGED << pipeline_vars, ctl_vars, worker_vars, producer_vars, terminated,
                    is_running, device_lost_callback_data_, lost_notified, eos_sent,
                    queue, create_pc, create_ret, device_vars, caps_vars >>

\* gst_tcam_mainsrc_sh_callback under the mutex: queue.push(buffer);
\* cv.notify_all().
sh_callback_push ==
    /\ ~terminated
    /\ sh_pc = "push"
    /\ queue' = Append(queue, sh_count + 1)
    /\ sh_count' = sh_count + 1
    /\ create_pc' = cv_notify_all
    /\ sh_pc' = "idle"
    /\ UNCHANGED << pipeline_vars, ctl_vars, worker_vars, producer_vars, terminated,
                    is_running, device_lost_callback_data_, lost_notified, eos_sent,
                    create_ret, device_vars, caps_vars >>

\* gst_tcam_mainsrc_unlock: under the mutex, is_running = false;
\* cv.notify_all().
gst_tcam_mainsrc_unlock ==
    /\ ~terminated
    /\ is_running' = FALSE
    /\ create_pc' = cv_notify_all
    /\ UNCHANGED << pipeline_vars, ctl_vars, worker_vars, producer_vars, terminated,
                    device_lost_callback_data_, lost_notified, eos_sent,
                    queue, create_ret, sh_pc, sh_count, device_vars, caps_vars >>

\* ------------------------------------------------------- caps negotiation

\* A GstStructure with its name, its "format" field and its "width" field.  A
\* field is the set of the values it lists; the empty set is a structure
\* without the field.  The caps of a GstCaps are the set of its structures.
Structure(name, format, width) ==
    [ name |-> name, format |-> format, width |-> width, height |-> {}, framerate |-> {} ]

\* Two fields intersect when one is absent or they share a value.
gst_value_can_intersect(a, b) == a = {} \/ b = {} \/ a \cap b # {}

gst_value_intersect(a, b) == IF a = {} THEN b ELSE IF b = {} THEN a ELSE a \cap b

gst_structure_can_intersect(s, t) ==
    /\ s.name = t.name
    /\ gst_value_can_intersect(s.format, t.format)
    /\ gst_value_can_intersect(s.width, t.width)
    /\ gst_value_can_intersect(s.height, t.height)
    /\ gst_value_can_intersect(s.framerate, t.framerate)

gst_structure_intersect(s, t) ==
    [ name |-> s.name,
      format |-> gst_value_intersect(s.format, t.format),
      width |-> gst_value_intersect(s.width, t.width),
      height |-> gst_value_intersect(s.height, t.height),
      framerate |-> gst_value_intersect(s.framerate, t.framerate) ]

\* gst_caps_intersect: the intersections of the pairs of structures that
\* intersect.  The result is never null; it is empty when no pair intersects.
gst_caps_intersect(caps1, caps2) ==
    { gst_structure_intersect(p[1], p[2]) :
        p \in { q \in caps1 \X caps2 : gst_structure_can_intersect(q[1], q[2]) } }

gst_caps_is_empty(caps) == caps = {}

\* gst_caps_is_fixed: one structure and one value at most in every field.
gst_caps_is_fixed(caps) ==
    /\ Cardinality(caps) = 1
    /\ \A s \in caps :
        /\ Cardinality(s.format) <= 1
        /\ Cardinality(s.width) <= 1
        /\ Cardinality(s.height) <= 1
        /\ Cardinality(s.framerate) <= 1

\* The caps of the pad templates of the conversion elements, for the formats
\* rggb (8-bit Bayer), rggb12p, rggb16, BGRx, GRAY8, GRAY16_LE and YUY2; every
\* template takes every width.  tcamdutils takes and gives every raw and Bayer
\* format and no image/jpeg; tcamby1xtransform takes packed Bayer and gives
\* 16-bit Bayer.
PadTemplates ==
    [ tcamdutils |->
        [ sink |-> { Structure("video/x-bayer", { "rggb", "rggb12p", "rggb16" }, {}),
                     Structure("video/x-raw", { "BGRx", "GRAY8", "GRAY16_LE", "YUY2" }, {}) },
          src  |-> { Structure("video/x-bayer", { "rggb", "rggb12p", "rggb16" }, {}),
                     Structure("video/x-raw", { "BGRx", "GRAY8", "GRAY16_LE", "YUY2" }, {}) } ],
      tcamby1xtransform |->
        [ sink |-> { Structure("video/x-bayer", { "rggb12p" }, {}) },
          src  |-> { Structure("video/x-bayer", { "rggb16" }, {}) } ],
      bayer2rgb |->
        [ sink |-> { Structure("video/x-bayer", { "rggb" }, {}) },
          src  |-> { Structure("video/x-raw", { "BGRx" }, {}) } ],
      videoconvert |->
        [ sink |-> { Structure("video/x-raw", { "BGRx", "GRAY8", "GRAY16_LE", "YUY2" }, {}) },
          src  |-> { Structure("video/x-raw", { "BGRx", "GRAY8", "GRAY16_LE", "YUY2" }, {}) } ],
      jpegdec |->
        [ sink |-> { Structure("image/jpeg", {}, {}) },
          src  |-> { Structure("video/x-raw", { "BGRx", "GRAY8" }, {}) } ] ]

\* The elements gst_element_factory_find can find.
ElementNames == { "tcamdutils", "tcamby1xtransform", "bayer2rgb", "videoconvert", "jpegdec" }

\* gst_element_factory_can_src_any_caps: a src pad template of the factory
\* intersects caps.
gst_element_factory_can_src_any_caps(factory, caps) ==
    ~gst_caps_is_empty(gst_caps_intersect(PadTemplates[factory].src, caps))

\* gst_element_factory_can_sink_any_caps: a sink pad template intersects caps.
gst_element_factory_can_sink_any_caps(factory, caps) ==
    ~gst_caps_is_empty(gst_caps_intersect(PadTemplates[factory].sink, caps))

\* get_caps_from_element_name: the caps of the pad of a new, unlinked element.
get_caps_from_element_name(elementname, padname) ==
    IF padname = "src" THEN PadTemplates[elementname].src
    ELSE PadTemplates[elementname].sink

\* gst_caps_change_name: every structure gets the name and loses "format".
gst_caps_change_name(caps, name) ==
    { [ s EXCEPT !.name = name, !.format = {} ] : s \in caps }

\* gst_structure_remove_field(.., "format") on every structure of caps.
remove_format(caps) == { [ s EXCEPT !.format = {} ] : s \in caps }

\* tcam_gst_raw_only_has_mono: every structure is video/x-raw with a format
\* field that lists mono formats only.
tcam_gst_raw_only_has_mono(caps) ==
    \A s \in caps :
        /\ s.name = "video/x-raw"
        /\ s.format # {}
        /\ s.format \subseteq { "GRAY8", "GRAY16_LE", "GRAY16_BE", "GRAY12p",
                                "GRAY10p", "GRAY12m", "GRAY10m" }

\* index_caps_formats: the pairs of name and format of the structures that
\* have a format field.
index_caps_formats(caps) ==
    UNION { { << s.name, f >> : f \in s.format } : s \in caps }

\* create_caps_for_formats(formats, rest): null unless rest is fixed and
\* formats lists a format; otherwise one structure for every format of
\* formats, with the other fields of rest.
create_caps_for_formats(formats, rest) ==
    IF ~gst_caps_is_fixed(rest) \/ index_caps_formats(formats) = {}
    THEN NullCaps
    ELSE LET st == CHOOSE s \in rest : TRUE
         IN  [ null |-> FALSE,
               caps |-> { [ st EXCEPT !.name = p[1], !.format = { p[2] } ] :
                            p \in index_caps_formats(formats) } ]

\* What find_input_caps leaves: the value it returns and the flags.
Found(caps, m) == [ null |-> FALSE, caps |-> caps, modules |-> m ]

NotFound(m) == [ null |-> TRUE, caps |-> {}, modules |-> m ]

\* find_input_caps_dutils.  wanted_caps is never empty here, so
\* tcam_gst_find_largest_caps(available_caps) is not reached.
find_input_caps_dutils(available, wanted, found) ==
    LET m1 == [ reset_input_caps_modules EXCEPT !.videoconvert = TRUE ]
        m2 == [ m1 EXCEPT !.dutils = TRUE ]
    IN  IF "tcamdutils" \notin found
        THEN NotFound(m1)
        ELSE IF /\ gst_element_factory_can_src_any_caps("tcamdutils", wanted)
                /\ gst_element_factory_can_sink_any_caps("tcamdutils", available)
        THEN IF ~gst_caps_is_fixed(available)
             THEN IF ~gst_caps_is_fixed(wanted)
                  THEN IF gst_caps_is_empty(gst_caps_intersect(available, wanted))
                       THEN Found(available, m2)
                       ELSE Found(gst_caps_intersect(available, wanted), m2)
                  ELSE LET possible_matches == create_caps_for_formats(available, wanted)
                       IN  IF possible_matches.null \/ gst_caps_is_empty(possible_matches.caps)
                           THEN NotFound(m2)
                           ELSE Found(gst_caps_intersect(available, possible_matches.caps), m2)
             ELSE Found(available, m2)
        ELSE NotFound(m1)

\* find_input_caps after the tcamdutils test: raw intersection, the last
\* attempt.
find_input_caps_intersect(available, wanted, found) ==
    IF ~gst_caps_is_empty(gst_caps_intersect(available, wanted))
    THEN Found(gst_caps_intersect(available, wanted), reset_input_caps_modules)
    ELSE NotFound(reset_input_caps_modules)

\* ... jpegdec.
find_input_caps_jpegdec(available, wanted, found) ==
    IF /\ "jpegdec" \in found
       /\ gst_element_factory_can_src_any_caps("jpegdec", wanted)
       /\ gst_element_factory_can_sink_any_caps("jpegdec", available)
    THEN Found(gst_caps_intersect(available, gst_caps_change_name(wanted, "image/jpeg")),
               [ reset_input_caps_modules EXCEPT !.jpegdec = TRUE, !.videoconvert = TRUE ])
    ELSE find_input_caps_intersect(available, wanted, found)

\* ... videoconvert.
find_input_caps_videoconvert(available, wanted, found) ==
    IF /\ "videoconvert" \in found
       /\ gst_element_factory_can_src_any_caps("videoconvert", wanted)
       /\ gst_element_factory_can_sink_any_caps("videoconvert", available)
    THEN IF ~gst_caps_is_empty(gst_caps_intersect(available, wanted))
         THEN Found(gst_caps_intersect(available, wanted), reset_input_caps_modules)
         ELSE Found(gst_caps_intersect(
                        gst_caps_intersect(available,
                                           get_caps_from_element_name("videoconvert", "sink")),
                        remove_format(wanted)),
                    [ reset_input_caps_modules EXCEPT !.videoconvert = TRUE ])
    ELSE find_input_caps_jpegdec(available, wanted, found)

\* ... bayer2rgb, alone and then with videoconvert.
find_input_caps_debayer(available, wanted, found) ==
    IF /\ "bayer2rgb" \in found
       /\ gst_element_factory_can_src_any_caps("bayer2rgb", wanted)
       /\ gst_element_factory_can_sink_any_caps("bayer2rgb", available)
    THEN Found(gst_caps_intersect(available, gst_caps_change_name(wanted, "video/x-bayer")),
               [ reset_input_caps_modules EXCEPT !.bayer2rgb = TRUE ])
    ELSE IF /\ "bayer2rgb" \in found
            /\ "videoconvert" \in found
            /\ gst_element_factory_can_src_any_caps("videoconvert", wanted)
            /\ gst_element_factory_can_sink_any_caps("bayer2rgb", available)
    THEN Found(gst_caps_intersect(available, gst_caps_change_name(wanted, "video/x-bayer")),
               [ reset_input_caps_modules EXCEPT !.bayer2rgb = TRUE, !.videoconvert = TRUE ])
    ELSE find_input_caps_videoconvert(available, wanted, found)

\* ... tcamby1xtransform: alone, with bayer2rgb, with videoconvert.
find_input_caps_by1xtransform(available, wanted, found, use) ==
    IF ~(use.use_by1xtransform /\ "tcamby1xtransform" \in found)
    THEN find_input_caps_debayer(available, wanted, found)
    ELSE IF /\ gst_element_factory_can_src_any_caps("tcamby1xtransform", wanted)
            /\ gst_element_factory_can_sink_any_caps("tcamby1xtransform", available)
    THEN Found(gst_caps_intersect(available, gst_caps_change_name(wanted, "video/x-bayer")),
               [ reset_input_caps_modules EXCEPT !.bayertransform = TRUE ])
    ELSE IF /\ "bayer2rgb" \in found
            /\ ~tcam_gst_raw_only_has_mono(available)
            /\ gst_element_factory_can_src_any_caps("bayer2rgb", wanted)
            /\ gst_element_factory_can_sink_any_caps("tcamby1xtransform", available)
    THEN Found(gst_caps_intersect(available, gst_caps_change_name(wanted, "video/x-bayer")),
               [ reset_input_caps_modules EXCEPT !.bayertransform = TRUE, !.bayer2rgb = TRUE ])
    ELSE IF /\ "videoconvert" \in found
            /\ gst_element_factory_can_src_any_caps("videoconvert", wanted)
            /\ gst_element_factory_can_sink_any_caps(
                   "videoconvert", get_caps_from_element_name("tcamby1xtransform", "src"))
    THEN LET intersect ==
                 gst_caps_intersect(get_caps_from_element_name("tcamby1xtransform", "src"),
                                    wanted)
         IN  IF ~gst_caps_is_empty(intersect)
             THEN Found(intersect, reset_input_caps_modules)
             ELSE Found(gst_caps_intersect(
                            gst_caps_intersect(
                                available,
                                get_caps_from_element_name("tcamby1xtransform", "sink")),
                            remove_format(wanted)),
                        [ reset_input_caps_modules EXCEPT !.bayertransform = TRUE,
                                                          !.videoconvert = TRUE ])
    ELSE find_input_caps_debayer(available, wanted, found)

\* find_input_caps(available_caps, wanted_caps, modules, toggles), with the
\* set found of the factories gst_element_factory_find finds.  Empty
\* wanted_caps are replaced by a copy of available_caps.
find_input_caps(available, wanted_in, found, use) ==
    LET wanted == IF gst_caps_is_empty(wanted_in) THEN available ELSE wanted_in
    IN  IF use.use_dutils /\ "tcamdutils" \in found
        THEN find_input_caps_dutils(available, wanted, found)
        ELSE find_input_caps_by1xtransform(available, wanted, found, use)

\* The caller applies find_input_caps to its caps.
call_find_input_caps ==
    /\ called = "none"
    /\ called' = "find_input_caps"
    /\ LET r == find_input_caps(available_caps, wanted_caps, factories, toggles)
       IN  /\ ret' = [ null |-> r.null, caps |-> r.caps ]
           /\ modules' = r.modules
    /\ UNCHANGED << pipeline_vars, ctl_vars, worker_vars, producer_vars, terminated,
                    gst_vars, available_caps, wanted_caps, factories, toggles,
                    format_fourccs, preferred_fourcc, incoming, largest_caps,
                    src_caps, result >>

\* ------------------------------------------------------ format preference

\* The fourccs the model distinguishes, numbered; 0 is no fourcc.  One or two
\* of every class find_preferred_format tests, and FOURCC_I420, which it does
\* not rank.
FOURCC_GBRG8 == 1
FOURCC_RGGB8 == 2
FOURCC_BGR24 == 3
FOURCC_YUY2 == 4
FOURCC_MJPG == 5
FOURCC_Y800 == 6
FOURCC_Y16 == 7
FOURCC_PWL_RG12 == 8
FOURCC_RGGB10 == 9
FOURCC_RGGB12 == 10
FOURCC_RGGB16 == 11
FOURCC_POLARIZATION_BG8_90_45_135_0 == 12
FOURCC_POLARIZATION_MONO8_90_45_135_0 == 13
FOURCC_I420 == 14

Fourccs ==
    { FOURCC_GBRG8, FOURCC_RGGB8, FOURCC_BGR24, FOURCC_YUY2, FOURCC_MJPG, FOURCC_Y800,
      FOURCC_Y16, FOURCC_PWL_RG12, FOURCC_RGGB10, FOURCC_RGGB12, FOURCC_RGGB16,
      FOURCC_POLARIZATION_BG8_90_45_135_0, FOURCC_POLARIZATION_MONO8_90_45_135_0,
      FOURCC_I420 }

tcam_gst_is_fourcc_bayer(fourcc) == fourcc \in { FOURCC_GBRG8, FOURCC_RGGB8 }

tcam_gst_is_fourcc_rgb(fourcc) == fourcc = FOURCC_BGR24

tcam_gst_is_fourcc_yuv(fourcc) == fourcc = FOURCC_YUY2

tcam_gst_is_bayerpwl_fourcc(fourcc) == fourcc = FOURCC_PWL_RG12

tcam_gst_is_bayer10_fourcc(fourcc) == fourcc = FOURCC_RGGB10

tcam_gst_is_bayer12_fourcc(fourcc) == fourcc = FOURCC_RGGB12

tcam_gst_is_bayer16_fourcc(fourcc) == fourcc = FOURCC_RGGB16

tcam_gst_is_polarized_bayer(fourcc) == fourcc = FOURCC_POLARIZATION_BG8_90_45_135_0

tcam_gst_is_polarized_mono(fourcc) == fourcc = FOURCC_POLARIZATION_MONO8_90_45_135_0

\* The key find_preferred_format stores the fourcc under, -1 when it stores
\* nothing.
map_key(fourcc) ==
    IF tcam_gst_is_fourcc_bayer(fourcc) THEN 0
    ELSE IF tcam_gst_is_fourcc_rgb(fourcc) THEN 10
    ELSE IF tcam_gst_is_fourcc_yuv(fourcc) THEN 20
    ELSE IF fourcc = FOURCC_MJPG THEN 30
    ELSE IF fourcc = FOURCC_Y800 THEN 40
    ELSE IF fourcc = FOURCC_Y16 THEN 50
    ELSE IF tcam_gst_is_bayerpwl_fourcc(fourcc) THEN 60
    ELSE IF tcam_gst_is_bayer10_fourcc(fourcc) THEN 65
    ELSE IF tcam_gst_is_bayer12_fourcc(fourcc) THEN 70
    ELSE IF tcam_gst_is_bayer16_fourcc(fourcc) THEN 80
    ELSE IF tcam_gst_is_polarized_bayer(fourcc) THEN 90
    ELSE IF tcam_gst_is_polarized_mono(fourcc) THEN 100
    ELSE -1

\* find_preferred_format: the std::map after the first n entries of v.  A
\* later fourcc with the same key replaces the earlier one.
RECURSIVE preferred_map(_, _)
preferred_map(v, n) ==
    IF n = 0
    THEN [ k \in {} |-> 0 ]
    ELSE LET map == preferred_map(v, n - 1)
             key == map_key(v[n])
         IN  IF key = -1
             THEN map
             ELSE [ k \in DOMAIN map \cup { key } |-> IF k = key THEN v[n] ELSE map[k] ]

\* find_preferred_format(vec): map.begin()->second, 0 for an empty vec or map.
find_preferred_format(v) ==
    IF Len(v) = 0
    THEN 0
    ELSE LET map == preferred_map(v, Len(v))
         IN  IF DOMAIN map = {}
             THEN 0
             ELSE map[CHOOSE k \in DOMAIN map : \A j \in DOMAIN map : k <= j]

\* The caller applies find_preferred_format to a vector of fourccs.
call_find_preferred_format ==
    /\ called = "none"
    /\ called' = "find_preferred_format"
    /\ preferred_fourcc' = find_preferred_format(format_fourccs)
    /\ UNCHANGED << pipeline_vars, ctl_vars, worker_vars, producer_vars, terminated,
                    gst_vars, available_caps, wanted_caps, factories, toggles, modules,
                    ret, format_fourccs, incoming, largest_caps,
                    src_caps, result >>

\* ----------------------------------------------------------- largest caps

\* A structure of the caps of a device: the fourcc that
\* tcam_fourcc_from_gst_1_0_caps_string gives for its name and format, an int
\* width, an int height and the list of its framerates.
DeviceStructure(fourcc, width, height, framerate) ==
    [ fourcc |-> fourcc, width |-> width, height |-> height, framerate |-> framerate ]

\* The sequence of the members of the set S of numbers, ascending: std::sort.
RECURSIVE sorted(_)
sorted(S) ==
    IF S = {}
    THEN <<>>
    ELSE LET least == CHOOSE x \in S : \A y \in S : x <= y
         IN  << least >> \o sorted(S \ { least })

\* index_format_fourccs: the fourccs of the structures that are not 0, sorted,
\* each once.
index_format_fourccs(caps) ==
    sorted({ caps[i].fourcc : i \in 1..Len(caps) } \ { 0 })

\* tcam_gst_find_largest_caps, the loop over the first n structures: the
\* values of largest_index, largest_width and largest_height after it.
\* Indices count from 1; largest_index starts at the first structure.
RECURSIVE largest_loop(_, _, _)
largest_loop(caps, preferred, n) ==
    IF n = 0
    THEN [ largest_index |-> 1, largest_width |-> -1, largest_height |-> -1 ]
    ELSE LET before == largest_loop(caps, preferred, n - 1)
             struc == caps[n]
             new_width == before.largest_width < struc.width
             new_height == before.largest_height <= struc.height
         IN  IF struc.fourcc # preferred
             THEN before
             ELSE [ largest_index |-> IF new_width \/ new_height THEN n
                                      ELSE before.largest_index,
                    largest_width |-> IF new_width THEN struc.width
                                      ELSE before.largest_width,
                    largest_height |-> IF new_height THEN struc.height
                                       ELSE before.largest_height ]

\* tcam_gst_fixate_caps: width and height are ints already; the framerate
\* nearest to G_MAXINT/1 is the greatest of the list.
tcam_gst_fixate_caps(struc) ==
    [ struc EXCEPT !.framerate =
        { CHOOSE f \in struc.framerate : \A g \in struc.framerate : g <= f } ]

\* tcam_gst_find_largest_caps(incoming): null for empty caps, otherwise the
\* structure at largest_index, fixated.
tcam_gst_find_largest_caps(caps) ==
    IF Len(caps) = 0
    THEN NullCaps
    ELSE LET preferred == find_preferred_format(index_format_fourccs(caps))
             largest_index == largest_loop(caps, preferred, Len(caps)).largest_index
         IN  [ null |-> FALSE, caps |-> { tcam_gst_fixate_caps(caps[largest_index]) } ]

\* The caller applies tcam_gst_find_largest_caps to the caps of the device.
call_tcam_gst_find_largest_caps ==
    /\ called = "none"
    /\ called' = "tcam_gst_find_largest_caps"
    /\ largest_caps' = tcam_gst_find_largest_caps(incoming)
    /\ UNCHANGED << pipeline_vars, ctl_vars, worker_vars, producer_vars, terminated,
                    gst_vars, available_caps, wanted_caps, factories, toggles, modules,
                    ret, format_fourccs, preferred_fourcc, incoming, src_caps, result >>

\* add_interpretation_filter, applied once to the chain as it is between two
\* operations of the control thread; PipelineManager.cpp has no call of it.
add_interpretation_filter ==
    /\ ~terminated
    /\ ctl_pc = "idle"
    /\ called = "none"
    /\ called' = "add_interpretation_filter"
    /\ filter_pipeline' = interpretation_loop(1, filter_pipeline)
    /\ UNCHANGED << status, source, sink, source_status, sink_status,
                    property_filter_status, filter_status, available_input_formats,
                    input_format, output_format, source_format, ctl_vars, worker_vars,
                    producer_vars, terminated, gst_vars, available_caps, wanted_caps,
                    factories, toggles, modules, ret, format_fourccs, preferred_fourcc,
                    incoming, largest_caps, src_caps, result >>

\* ------------------------------------------------- negotiation of the source

G_MAXINT == 2147483647

\* gst_structure_fixate_field_nearest_int and .._nearest_fraction on a field
\* that lists values: the value nearest to the target; an absent field stays
\* absent and a single value stays.
fixate_field_nearest(field, target) ==
    IF field = {}
    THEN {}
    ELSE { CHOOSE v \in field :
             \A u \in field :
                 (IF v < target THEN target - v ELSE v - target)
                     <= (IF u < target THEN target - u ELSE u - target) }

\* gst_tcam_mainsrc_fixate_caps: width and height to the value nearest to 0,
\* the frame rate to the value nearest to 0/1 ((int) 0.5), then the fixation
\* of the base class, which takes one value of every field left open.
gst_tcam_mainsrc_fixate_caps(structure) ==
    LET fixed == [ structure EXCEPT !.width = fixate_field_nearest(@, 0),
                                    !.height = fixate_field_nearest(@, 0),
                                    !.framerate = fixate_field_nearest(@, 0) ]
    IN  { [ fixed EXCEPT !.format = fmt ] :
            fmt \in (IF fixed.format = {} THEN { {} }
                     ELSE { { f } : f \in fixed.format }) }

\* negotiate_choice with the frame rate fixated to the one nearest to 0/1, as
\* gst_tcam_mainsrc_fixate_caps does.
negotiate_choice_lowest_rate(thiscaps, first) ==
    LET icaps == gst_caps_intersect(thiscaps, { first })
    IN  IF Cardinality(icaps) > 1
        THEN icaps
        ELSE { [ structure EXCEPT !.width = fixate_field_nearest(@, -1),
                                  !.height = fixate_field_nearest(@, -1),
                                  !.framerate = fixate_field_nearest(@, 0) ] :
                 structure \in icaps }

\* gst_tcam_mainsrc_negotiate, the caps it chooses before the last fixation.
\* With several structures in the intersection it copies one of them as it
\* is; with one it copies that and fixates width and height to the value
\* nearest to (int) G_MAXUINT, which is -1, and the frame rate to the one
\* nearest to G_MAXINT/1.  Caps are sets here, so "the first structure" and
\* the index the backward walk leaves are any structure.
negotiate_choice(thiscaps, first) ==
    LET icaps == gst_caps_intersect(thiscaps, { first })
    IN  IF Cardinality(icaps) > 1
        THEN icaps
        ELSE { [ structure EXCEPT !.width = fixate_field_nearest(@, -1),
                                  !.height = fixate_field_nearest(@, -1),
                                  !.framerate = fixate_field_nearest(@, G_MAXINT) ] :
                 structure \in icaps }

\* gst_tcam_mainsrc_negotiate with the caps of the device on the pad and the
\* caps find_input_caps returned at the peer.  With an empty intersection of
\* the two the first loop of the function does not end (i <= size - 1 in
\* unsigned arithmetic, i decremented), so the call is not enabled.  The
\* value of gst_base_src_set_caps is either.
gst_tcam_mainsrc_negotiate ==
    /\ called = "find_input_caps"
    /\ ~ret.null
    /\ called' = "gst_tcam_mainsrc_negotiate"
    /\ LET thiscaps == available_caps
           peercaps == ret.caps
       IN  IF gst_caps_is_empty(thiscaps)
           THEN result' = TRUE /\ src_caps' = src_caps
           ELSE /\ gst_caps_is_empty(peercaps) \/ gst_caps_intersect(thiscaps, peercaps) # {}
                /\ \E chosen \in (IF gst_caps_is_empty(peercaps)
                                  THEN thiscaps
                                  ELSE UNION { negotiate_choice(thiscaps, first) :
                                                 first \in gst_caps_intersect(thiscaps, peercaps) }) :
                     \E fixated \in gst_tcam_mainsrc_fixate_caps(chosen) :
                         IF gst_caps_is_fixed({ fixated })
                         THEN /\ src_caps' = [ null |-> FALSE, caps |-> { fixated } ]
                              /\ result' \in BOOLEAN
                         ELSE result' = FALSE /\ src_caps' = src_caps
    /\ UNCHANGED << pipeline_vars, ctl_vars, worker_vars, producer_vars, terminated,
                    gst_vars, available_caps, wanted_caps, factories, toggles, modules,
                    ret, format_fourccs, preferred_fourcc, incoming, largest_caps >>

\* ------------------------------------------------------ the specification

Control ==
    \/ \E s \in StatusTargets : set_status(s)
    \/ create_pipeline
    \/ start_sink
    \/ start_source
    \/ start_status
    \/ start_thread
    \/ stop_status
    \/ stop_source
    \/ stop_filter
    \/ stop_sink
    \/ stop_join
    \/ destroyPipeline
    \/ destroy_clear
    \/ \E formats \in DeviceFormatLists : setSource(formats)
    \/ setSink
    \/ \E f \in RequestedFourccs : setVideoFormat(f)
    \/ start_stream
    \/ stream_set_status
    \/ set_status_again
    \/ returned

Worker ==
    \/ worker_lock
    \/ worker_while
    \/ worker_wake
    \/ worker_check
    \/ worker_take
    \/ worker_apply
    \/ worker_push

Producer(max) ==
    \/ push_image_check(max)
    \/ push_image_enqueue

Next == Control \/ Worker \/ Producer(MaxFrames)

\* Every operation of the control thread, the worker and a producer that
\* delivers up to MaxFrames buffers.
Spec == Init /\ [][Next]_vars

\* The control thread attaches a source and a sink and then only changes the
\* status; the producer delivers up to MaxBuffers buffers.  output_format
\* keeps the fourcc it was constructed with, so filter_pipeline stays empty.
BufferControl ==
    \/ \E s \in StatusTargets : set_status(s)
    \/ create_pipeline
    \/ start_sink
    \/ start_source
    \/ start_status
    \/ start_thread
    \/ stop_status
    \/ stop_source
    \/ stop_sink
    \/ stop_join
    \/ \E formats \in DeviceFormatLists : setSource(formats)
    \/ setSink
    \/ returned

BufferNext == BufferControl \/ Worker \/ Producer(MaxBuffers)

BufferSpec == Init /\ [][BufferNext]_vars

\* The control thread attaches devices of every kind in ChainFormatLists and
\* a sink, requests an output format and changes the status.
ChainControl ==
    \/ \E s \in StatusTargets : set_status(s)
    \/ create_pipeline
    \/ start_sink
    \/ start_source
    \/ start_status
    \/ start_thread
    \/ stop_status
    \/ stop_source
    \/ stop_filter
    \/ stop_sink
    \/ stop_join
    \/ \E formats \in ChainFormatLists : setSource(formats)
    \/ setSink
    \/ \E f \in RequestedFourccs : setVideoFormat(f)
    \/ returned

\* The worker thread while no buffer arrives: it waits, wakes up, tests the
\* status and returns.
WaitingWorker ==
    \/ worker_lock
    \/ worker_while
    \/ worker_wake
    \/ worker_check
    \/ worker_take

ChainNext == ChainControl \/ WaitingWorker

\* Chains of up to two stages are built, started and stopped; no buffer
\* arrives.
ChainSpec == Init /\ [][ChainNext]_vars

\* The element after gst_tcam_mainsrc_set_caps has returned TRUE for the
\* first time: the device is open, the listener of the element is registered,
\* the stream runs with the worker waiting for a buffer, and is_running is
\* true.  LostSpec reaches this state.
ElementInit ==
    /\ status = TCAM_PIPELINE_PLAYING
    /\ source = TRUE
    /\ sink = TRUE
    /\ source_status = TCAM_PIPELINE_PLAYING
    /\ sink_status = TCAM_PIPELINE_PLAYING
    /\ property_filter_status = TCAM_PIPELINE_PLAYING
    /\ filter_status = [n \in FilterNames |-> TCAM_PIPELINE_UNDEFINED]
    /\ available_input_formats = << 1 >>
    /\ input_format = 0
    /\ output_format = 2
    /\ source_format = 0
    /\ filter_pipeline = <<>>
    /\ m_entry_queue = <<>>
    /\ m_mtx = "free"
    /\ m_cv = FALSE
    /\ m_pipeline_thread = "wait_for"
    /\ current_buffer = 0
    /\ ctl_pc = "idle"
    /\ ctl_op = "none"
    /\ ctl_arg = TCAM_PIPELINE_UNDEFINED
    /\ ctl_i = 0
    /\ ctl_ret = "none"
    /\ stop_ret = "none"
    /\ ctl_again = FALSE
    /\ push_pc = "idle"
    /\ next_buffer = 1
    /\ enqueued = <<>>
    /\ stopped_at = 0
    /\ delivered = <<>>
    /\ terminated = FALSE
    /\ is_running = TRUE
    /\ device_lost_callback_data_ = 1
    /\ lost_notified = FALSE
    /\ eos_sent = FALSE
    /\ queue = <<>>
    /\ create_pc = "idle"
    /\ create_ret = "none"
    /\ sh_pc = "idle"
    /\ sh_count = 0
    /\ DeviceOpened
    /\ NoNegotiation

\* The sink hands buffers to gst_tcam_mainsrc_sh_callback, the streaming
\* thread calls gst_tcam_mainsrc_create, and the element is unlocked or loses
\* its device.
ElementThreads ==
    \/ gst_tcam_mainsrc_create
    \/ create_wake
    \/ sh_callback_check(MaxImages)
    \/ sh_callback_push

ElementNext ==
    \/ ElementThreads
    \/ spurious_wakeup
    \/ gst_tcam_mainsrc_unlock
    \/ deviceindex_lost_cb

ElementSpec == ElementInit /\ [][ElementNext]_vars

\* A thread that can take its next step takes it.  A wait on cv need not
\* return without a notification, and nobody has to call unlock.
ElementFairSpec ==
    /\ ElementSpec
    /\ WF_vars(create_wake)
    /\ WF_vars(sh_callback_push)

\* Chains are built, started and stopped; add_interpretation_filter is
\* applied to one of them, which is looked at as the function leaves it.
InterpretationNext == (called = "none" /\ ChainNext) \/ add_interpretation_filter

InterpretationSpec == Init /\ [][InterpretationNext]_vars

\* The application opens the device, the element registers its listener,
\* caps are set and the stream runs; the device can report its loss at any
\* time and the application can close the device.
LostControl ==
    \/ \E formats \in DeviceFormatLists : setSource(formats)
    \/ register_device_lost_callback(MaxListeners)
    \/ gst_tcam_mainsrc_set_caps
    \/ \E f \in RequestedFourccs, ok \in BOOLEAN : set_caps_format(f, ok)
    \/ set_caps_running
    \/ stream_set_status
    \/ create_pipeline
    \/ start_sink
    \/ start_source
    \/ start_status
    \/ start_thread
    \/ stop_status
    \/ stop_source
    \/ stop_filter
    \/ stop_sink
    \/ stop_join
    \/ destroyPipeline
    \/ destroy_clear
    \/ returned

LostNext == LostControl \/ Worker \/ Producer(MaxFrames) \/ deviceindex_lost_cb

LostSpec == Init /\ [][LostNext]_vars

\* Structures a device offers: a name, one format (none for image/jpeg) and
\* one width.
AvailableStructures ==
    { Structure(nf[1], nf[2], { w }) :
        nf \in { << "video/x-bayer", { "rggb" } >>, << "video/x-bayer", { "rggb12p" } >>,
                 << "video/x-raw", { "BGRx" } >>, << "video/x-raw", { "GRAY8" } >>,
                 << "image/jpeg", {} >> },
        w \in { 1, 2 } }

\* Structures wanted downstream: the format and the width may be left open.
WantedStructures ==
    { Structure(nf[1], nf[2], w) :
        nf \in { << "video/x-bayer", { "rggb" } >>, << "video/x-raw", { "BGRx" } >>,
                 << "video/x-raw", { "GRAY8" } >>, << "video/x-raw", {} >>,
                 << "image/jpeg", {} >> },
        w \in { {}, { 1 }, { 2 } } }

\* find_input_caps is applied once to caps of up to MaxAvailable structures of
\* the device and up to MaxWanted wanted structures, with every set of
\* installed elements and every setting of the toggles.
NegotiationInit ==
    /\ InitSession
    /\ available_caps \in { c \in SUBSET AvailableStructures : Cardinality(c) <= MaxAvailable }
    /\ wanted_caps \in { c \in SUBSET WantedStructures : Cardinality(c) <= MaxWanted }
    /\ factories \in SUBSET ElementNames
    /\ toggles \in [ use_dutils : BOOLEAN, use_by1xtransform : BOOLEAN ]
    /\ modules = reset_input_caps_modules
    /\ ret = NullCaps
    /\ format_fourccs = <<>>
    /\ preferred_fourcc = 0
    /\ incoming = <<>>
    /\ largest_caps = NullCaps
    /\ src_caps = NullCaps
    /\ result = FALSE
    /\ called = "none"

NegotiationNext == call_find_input_caps

NegotiationSpec == NegotiationInit /\ [][NegotiationNext]_vars

\* Structures of a device with Bayer formats: 8-bit and 12-bit packed, two
\* resolutions, one frame rate or two.
ScenarioAvailable ==
    { [ name |-> "video/x-bayer", format |-> { f }, width |-> { r[1] },
        height |-> { r[2] }, framerate |-> fps ] :
        f \in { "rggb", "rggb12p" },
        r \in { << 1920, 1080 >>, << 640, 480 >> },
        fps \in { { 30, 60 }, { 30 } } }

\* Wanted colour formats, the resolution left open or given.
ScenarioWanted ==
    { [ name |-> "video/x-raw", format |-> { f }, width |-> r[1], height |-> r[2],
        framerate |-> {} ] :
        f \in { "BGRx", "YUY2" },
        r \in { << {}, {} >>, << { 1920 }, { 1080 } >> } }

\* find_input_caps and then gst_tcam_mainsrc_negotiate are applied to a
\* device with Bayer formats and a wanted colour format.
ScenarioInit ==
    /\ InitSession
    /\ available_caps \in { c \in SUBSET ScenarioAvailable :
                               c # {} /\ Cardinality(c) <= MaxAvailable }
    /\ wanted_caps \in { c \in SUBSET ScenarioWanted : Cardinality(c) <= MaxWanted }
    /\ factories \in SUBSET ElementNames
    /\ toggles \in [ use_dutils : BOOLEAN, use_by1xtransform : BOOLEAN ]
    /\ modules = reset_input_caps_modules
    /\ ret = NullCaps
    /\ format_fourccs = <<>>
    /\ preferred_fourcc = 0
    /\ incoming = <<>>
    /\ largest_caps = NullCaps
    /\ src_caps = NullCaps
    /\ result = FALSE
    /\ called = "none"

ScenarioNext == call_find_input_caps \/ gst_tcam_mainsrc_negotiate

ScenarioSpec == ScenarioInit /\ [][ScenarioNext]_vars

\* Sequences of up to n members of S.
RECURSIVE SeqsUpTo(_, _)
SeqsUpTo(S, n) ==
    IF n = 0
    THEN { <<>> }
    ELSE SeqsUpTo(S, n - 1) \cup [ 1..n -> S ]

\* Those of them that hold no member twice.
DistinctSeqs(S, n) ==
    { v \in SeqsUpTo(S, n) : \A i, j \in 1..Len(v) : i # j => v[i] # v[j] }

\* find_preferred_format is applied once to a vector of up to MaxFormats
\* different fourccs, in any order.
PreferenceInit ==
    /\ InitSession
    /\ available_caps = {}
    /\ wanted_caps = {}
    /\ factories = {}
    /\ toggles = [ use_dutils |-> FALSE, use_by1xtransform |-> FALSE ]
    /\ modules = reset_input_caps_modules
    /\ ret = NullCaps
    /\ format_fourccs \in DistinctSeqs(Fourccs, MaxFormats)
    /\ preferred_fourcc = 0
    /\ incoming = <<>>
    /\ largest_caps = NullCaps
    /\ src_caps = NullCaps
    /\ result = FALSE
    /\ called = "none"

PreferenceNext == call_find_preferred_format

PreferenceSpec == PreferenceInit /\ [][PreferenceNext]_vars

\* Structures a device offers to tcam_gst_find_largest_caps.
DeviceStructures ==
    { DeviceStructure(fourcc, width, height, framerate) :
        fourcc \in { FOURCC_RGGB8, FOURCC_BGR24 },
        width \in { 1, 2 }, height \in { 1, 2 }, framerate \in { { 1 }, { 1, 2 } } }

\* tcam_gst_find_largest_caps is applied once to caps of up to MaxStructures
\* structures.
LargestInit ==
    /\ InitSession
    /\ available_caps = {}
    /\ wanted_caps = {}
    /\ factories = {}
    /\ toggles = [ use_dutils |-> FALSE, use_by1xtransform |-> FALSE ]
    /\ modules = reset_input_caps_modules
    /\ ret = NullCaps
    /\ format_fourccs = <<>>
    /\ preferred_fourcc = 0
    /\ incoming \in SeqsUpTo(DeviceStructures, MaxStructures)
    /\ largest_caps = NullCaps
    /\ src_caps = NullCaps
    /\ result = FALSE
    /\ called = "none"

LargestNext == call_tcam_gst_find_largest_caps

LargestSpec == LargestInit /\ [][LargestNext]_vars

\* ------------------------------------------------------------- properties

\* The position of buffer b in the sequence s.
Pos(s, b) == CHOOSE k \in 1..Len(s) : s[k] = b

\* A public operation of the control thread has just returned.
AtReturn == ctl_pc = "return"

\* stop_playing has returned in the operation in progress.
StopPlayingReturned == ctl_pc \in { "return", "destroy_clear" } /\ stop_ret # "none"

\* start_playing has failed in the operation in progress: it has called
\* stop_playing and the set_status(PLAYING) that called it has returned.
StartPlayingFailed ==
    AtReturn /\ ctl_arg = TCAM_PIPELINE_PLAYING /\ stop_ret # "none"

\* A worker thread is executing run_pipeline.
WorkerRunning == m_pipeline_thread \notin { "none", "exited" }

\* Nothing is in progress: no public operation, no push_image call, and no
\* worker that could still take a buffer.
Quiescent ==
    /\ ctl_pc = "idle"
    /\ push_pc = "idle"
    /\ ~WorkerRunning

\* C1: with one producer thread, the Sink receives buffers in the order in
\* which push_image queued them: every delivered buffer was queued, and of
\* two delivered buffers the one queued first is delivered first.
C1_FifoDelivery ==
    /\ \A i \in 1..Len(delivered) : delivered[i] \in Range(enqueued)
    /\ \A i, j \in 1..Len(delivered) :
         i < j => Pos(enqueued, delivered[i]) < Pos(enqueued, delivered[j])

\* C1 witness: the worker has delivered every buffer of a full run.
C1_Witness == Len(delivered) = MaxBuffers /\ status = TCAM_PIPELINE_PLAYING

\* C2: every buffer push_image accepted is forwarded to the Sink exactly once,
\* whatever set_status calls are interleaved: once nothing is in progress any
\* more, each accepted buffer has been delivered, and none twice.
C2_AcceptedDeliveredOnce ==
    /\ Quiescent => Range(enqueued) \subseteq Range(delivered)
    /\ \A i, j \in 1..Len(delivered) : delivered[i] = delivered[j] => i = j

\* C3: a push_image call that finds status STOPPED returns without touching
\* the queue or the condition variable; a call that finds any other status
\* goes on to append exactly its buffer at the tail of the queue and to
\* notify the worker waiting on m_cv.
C3_PushImageEffect ==
    [][ /\ (push_pc = "idle" /\ << push_pc, next_buffer >>' # << push_pc, next_buffer >>) =>
             IF status = TCAM_PIPELINE_STOPPED
             THEN /\ push_pc' = "idle"
                  /\ next_buffer' = next_buffer + 1
                  /\ UNCHANGED << m_entry_queue, m_cv, enqueued >>
             ELSE /\ push_pc' = "enqueue"
                  /\ UNCHANGED << m_entry_queue, m_cv, enqueued, next_buffer >>
        /\ (push_pc = "enqueue" /\ push_pc' # push_pc) =>
             /\ m_entry_queue' = m_entry_queue \o << next_buffer >>
             /\ m_pipeline_thread = "wait_for" => m_cv'
      ]_vars

\* C3 witness: one call was rejected, a later call has queued its buffer in
\* status ERROR.
C3_Witness ==
    /\ status = TCAM_PIPELINE_ERROR
    /\ m_entry_queue # << >>
    /\ next_buffer > Len(enqueued) + 1
    /\ push_pc = "idle"

\* C4: when start_playing has failed and rolled back, the status is STOPPED or
\* ERROR, no worker is running, and neither Sink nor Source is left in
\* PLAYING.
C4_RollbackComplete ==
    StartPlayingFailed =>
        /\ status \in { TCAM_PIPELINE_STOPPED, TCAM_PIPELINE_ERROR }
        /\ ~WorkerRunning
        /\ sink_status # TCAM_PIPELINE_PLAYING
        /\ source_status # TCAM_PIPELINE_PLAYING

\* C5: set_status(PLAYING), also when CaptureDeviceImpl::start_stream makes the
\* call, returns true only if the status is PLAYING when it returns.
C5_TrueOnlyIfPlaying ==
    (AtReturn /\ ctl_op \in { "set_status", "start_stream" }
        /\ ctl_arg = TCAM_PIPELINE_PLAYING /\ ctl_ret = "true")
    => status = TCAM_PIPELINE_PLAYING

\* C6: whenever stop_playing has returned, with true or with false, the worker
\* thread has exited and has been joined.
C6_JoinedWhenStopReturns == StopPlayingReturned => m_pipeline_thread = "none"

\* C7: once stop_playing has returned and the status is STOPPED, no push_image
\* call makes the queue longer, a call already in flight included.
C7_NoGrowthAfterStop ==
    [][ (status = TCAM_PIPELINE_STOPPED /\ ctl_pc \in { "idle", "return" })
        => Len(m_entry_queue') <= Len(m_entry_queue) ]_vars

C9_NoSecondWorker == ~(ctl_pc = "start_thread" /\ m_pipeline_thread # "none")

\* The effects the second of two set_status(s) calls must not have: it
\* returns at once and changes neither status nor chain nor the status of a
\* collaborator.
SecondCallIsNoOp ==
    /\ ctl_pc' = "return"
    /\ UNCHANGED << status, filter_pipeline, input_format, source_status, sink_status,
                    filter_status, property_filter_status, m_pipeline_thread >>

\* C10 as claimed: a set_status(s) directly after a set_status(s) has no
\* effect, whatever the first call did.
C10_SecondCallNoOp == [][ (~ctl_again /\ ctl_again') => SecondCallIsNoOp ]_vars

\* C10 amended: a set_status(s) directly after a set_status(s) that left the
\* status equal to s has no effect.
C10_SecondCallNoOpWhenReached ==
    [][ (~ctl_again /\ ctl_again' /\ status = ctl_arg) => SecondCallIsNoOp ]_vars

\* C10 witness: the second set_status(PLAYING) has returned on a pipeline the
\* first one started.
C10_Witness ==
    /\ ctl_again
    /\ AtReturn
    /\ ctl_arg = TCAM_PIPELINE_PLAYING
    /\ status = TCAM_PIPELINE_PLAYING
    /\ WorkerRunning
    /\ sink_status = TCAM_PIPELINE_PLAYING

\* The control thread is inside start_playing, after the Sink has accepted
\* PLAYING.
SinkStarted == ctl_pc \in { "start_source", "start_status", "start_thread" }

\* C11: whenever status is PLAYING, the states a set_status in progress lets
\* other threads see included, create_pipeline has completed for the
\* transition: the control thread is not still before or inside it.
C11_PlayingOnlyAfterCreate ==
    status = TCAM_PIPELINE_PLAYING => ctl_pc # "create_pipeline"

\* C12: a chain that fails validate_pipeline aborts the start: with such a
\* chain set_status(PLAYING) never gets as far as setting the Sink to PLAYING.
C12_InvalidChainAborts == SinkStarted => validate_pipeline

\* C13: whenever create_pipeline has returned true, validate_pipeline holds of
\* the chain it built.
C13_CreatedChainValid == ctl_pc = "start_sink" => validate_pipeline

\* The pipeline is streaming: status is PLAYING or PAUSED.
Streaming == status \in { TCAM_PIPELINE_PLAYING, TCAM_PIPELINE_PAUSED }

C15_FormatsFixedWhileStreaming ==
    [][ (ctl_pc = "idle" /\ ctl_op' \in { "setVideoFormat", "setSource", "setSink" }
            /\ Streaming)
        => UNCHANGED << input_format, output_format, filter_pipeline >> ]_vars

\* C16: when setSink returns true on a manager that holds a successfully
\* attached source, the status is no longer UNDEFINED: the attach has moved
\* it to STOPPED.
C16_AttachedIsStopped ==
    (AtReturn /\ ctl_op = "setSink" /\ ctl_ret = "true"
        /\ source /\ available_input_formats # << >>)
    => status # TCAM_PIPELINE_UNDEFINED

\* The first n stages of filter_pipeline are in status s.
StagesIn(n, s) == \A j \in 1..n : filter_status[filter_pipeline[j].name] = s

\* C17: start_playing delivers PLAYING to the Sink, then to the Source, then
\* to every stage of the chain, and starts the worker after that: the Source
\* is asked only after the Sink has accepted, and when the thread is created
\* Sink, Source and every stage are in PLAYING.
C17_StartOrder ==
    /\ ctl_pc = "start_source" => sink_status = TCAM_PIPELINE_PLAYING
    /\ ctl_pc = "start_thread" =>
          /\ sink_status = TCAM_PIPELINE_PLAYING
          /\ source_status = TCAM_PIPELINE_PLAYING
          /\ StagesIn(Len(filter_pipeline), TCAM_PIPELINE_PLAYING)

\* C18: stop_playing delivers STOPPED to the Source first, then to the stages
\* in chain order, then to the Sink, and joins the worker last: a stage is
\* stopped only when the Source and the stages before it are stopped, the Sink
\* only when the Source and every stage are stopped, and the worker is joined
\* only after all of them, the Sink and the property filter included, have
\* been told.
C18_StopOrder ==
    [][ /\ \A i \in 1..Len(filter_pipeline) :
              (filter_status'[filter_pipeline[i].name] # filter_status[filter_pipeline[i].name])
              => /\ filter_status'[filter_pipeline[i].name] = TCAM_PIPELINE_STOPPED
                 /\ source_status = TCAM_PIPELINE_STOPPED
                 /\ StagesIn(i - 1, TCAM_PIPELINE_STOPPED)
        /\ (sink_status' # sink_status /\ sink_status' = TCAM_PIPELINE_STOPPED)
              => /\ source_status = TCAM_PIPELINE_STOPPED
                 /\ StagesIn(Len(filter_pipeline), TCAM_PIPELINE_STOPPED)
        /\ (m_pipeline_thread = "exited" /\ m_pipeline_thread' = "none")
              => /\ source_status = TCAM_PIPELINE_STOPPED
                 /\ StagesIn(Len(filter_pipeline), TCAM_PIPELINE_STOPPED)
                 /\ property_filter_status = TCAM_PIPELINE_STOPPED
      ]_vars

\* C18 witness: a running pipeline with a chain of two stages has been
\* stopped down to the Sink, and its worker has exited and is about to be
\* joined.
C18_Witness ==
    /\ ctl_pc = "stop_join"
    /\ m_pipeline_thread = "exited"
    /\ Len(filter_pipeline) = 2
    /\ source_status = TCAM_PIPELINE_STOPPED
    /\ sink_status = TCAM_PIPELINE_STOPPED

\* C19: the worker never calls sink->push_image once the Sink has been set to
\* STOPPED, and never calls property_filter->apply once the property filter
\* has been set to STOPPED.
C19_NoCallAfterStopped ==
    [][ /\ (m_pipeline_thread = "apply" /\ m_pipeline_thread' = "push")
              => property_filter_status # TCAM_PIPELINE_STOPPED
        /\ (m_pipeline_thread = "push" /\ m_pipeline_thread' = "lock" /\ sink)
              => sink_status # TCAM_PIPELINE_STOPPED
      ]_vars

\* C20: destroyPipeline resets source and sink only when the worker thread
\* has exited, and the worker is never about to read sink after the reset.
C20_ClearedAfterWorkerExit ==
    [][ /\ ((source /\ ~source') \/ (sink /\ ~sink')) => ~WorkerRunning
        /\ (ctl_pc = "destroy_clear" /\ ctl_pc' = "return") => ~WorkerRunning
      ]_vars

\* C21: status and the buffer queue are read and written only by a thread
\* that holds m_mtx: while the worker holds it, no other thread writes the
\* status and no push_image call reads it.
C21_StatusUnderMutex ==
    [][ m_mtx = "worker" => UNCHANGED << status, push_pc, next_buffer >> ]_vars

\* C22: once the status is not PLAYING, the worker takes no further buffer
\* from the queue.
C22_NoPopAfterCancel ==
    [][ status # TCAM_PIPELINE_PLAYING => Len(m_entry_queue') >= Len(m_entry_queue) ]_vars

\* C23: the worker does not hold m_mtx while it executes
\* property_filter->apply or sink->push_image, so a push_image call that
\* waits for the mutex can go on at once, however many buffers are queued.
C23_PushNeverWaitsForSink ==
    (~terminated /\ m_pipeline_thread \in { "apply", "push" }) =>
        /\ m_mtx = "free"
        /\ push_pc = "enqueue" => ENABLED push_image_enqueue

\* C23 witness: a push_image call is about to queue its buffer while the
\* worker is inside sink->push_image and another buffer waits in the queue.
C23_Witness ==
    /\ push_pc = "enqueue"
    /\ m_pipeline_thread = "push"
    /\ Len(m_entry_queue) >= 1

\* C24: when create_pipeline fails inside set_status(PLAYING), the status
\* becomes ERROR, false is returned, and the step changes neither the status
\* of Sink or Source nor the worker thread; the status leaves ERROR only by
\* the assignment at the entry of a set_status call of the caller.
C24_ErrorIsStable ==
    [][ /\ (ctl_pc = "create_pipeline" /\ ctl_pc' \notin { "create_pipeline", "start_sink" })
              => /\ status' = TCAM_PIPELINE_ERROR
                 /\ ctl_ret' = "false"
                 /\ UNCHANGED << sink_status, source_status, m_pipeline_thread >>
        /\ (status = TCAM_PIPELINE_ERROR /\ status' # TCAM_PIPELINE_ERROR)
              => /\ ctl_pc \in { "idle", "return", "stream_set_status" }
                 /\ status' = ctl_arg'
      ]_vars

\* C24 witness: set_status(PLAYING) has returned false with status ERROR on a
\* manager that has a source and a sink, which refused the formats.
C24_Witness ==
    /\ AtReturn
    /\ ctl_arg = TCAM_PIPELINE_PLAYING
    /\ ctl_ret = "false"
    /\ status = TCAM_PIPELINE_ERROR
    /\ source /\ sink

\* The element has handled the loss of the device: it has sent EOS and no
\* later set_caps of the application has made it run again.
LostHandled == eos_sent /\ ~is_running

\* The worker thread can still deliver: it runs, waits for buffers and tests
\* status = PLAYING only.
WorkerWaiting == m_pipeline_thread = "wait_for" /\ m_mtx = "free"

\* C25: once the listeners have been called for the loss of the device and the
\* element has handled it, and no operation, push_image call or buffer is in
\* progress, the pipeline manager, unless its stream had failed with ERROR,
\* is STOPPED with no worker thread, or the device is closed.
C25_LostSessionTerminal ==
    (/\ lost_notified
     /\ LostHandled
     /\ status # TCAM_PIPELINE_ERROR
     /\ ctl_pc = "idle"
     /\ push_pc = "idle"
     /\ m_entry_queue = <<>>
     /\ m_pipeline_thread \in { "none", "exited", "wait_for" })
        => \/ ~source
           \/ status = TCAM_PIPELINE_STOPPED /\ ~WorkerRunning

\* The element can bridge available_caps and wanted_caps: it is installed, a
\* sink template intersects the caps of the device, and a src template
\* intersects the wanted caps (the device's caps when none are wanted).
Bridges(element) ==
    /\ element \in factories
    /\ gst_element_factory_can_sink_any_caps(element, available_caps)
    /\ gst_element_factory_can_src_any_caps(
           element, IF wanted_caps = {} THEN available_caps ELSE wanted_caps)

\* C26: when available_caps and wanted_caps intersect, find_input_caps returns
\* their intersection and sets no flag of the required modules.
C26_DirectIntersectionFirst ==
    (/\ called = "find_input_caps"
     /\ ~gst_caps_is_empty(gst_caps_intersect(available_caps, wanted_caps)))
        => /\ ~ret.null
           /\ ret.caps = gst_caps_intersect(available_caps, wanted_caps)
           /\ modules = reset_input_caps_modules

\* C27: a strategy that cannot bridge is passed over for the next one, so
\* find_input_caps returns null only when no later single-stage strategy
\* (bayer2rgb, videoconvert, jpegdec) can bridge available_caps and wanted_caps.
C27_RejectedStrategyFallsThrough ==
    (called = "find_input_caps" /\ ret.null)
        => \A element \in { "bayer2rgb", "videoconvert", "jpegdec" } : ~Bridges(element)

\* C28: find_input_caps returns null for empty available_caps, and a value it
\* returns that is not null is never the empty caps.
C28_NullOrNonEmpty ==
    called = "find_input_caps"
        => /\ gst_caps_is_empty(available_caps) => ret.null
           /\ ~ret.null => ~gst_caps_is_empty(ret.caps)

\* The place of an encoding in the order of the claim: Bayer 8-bit, RGB, YUV,
\* MJPEG, 16-bit mono, 8-bit mono, PWL Bayer, 10/12-bit Bayer, 16-bit Bayer,
\* polarized Bayer, polarized mono; -1 for an encoding without a rank.
StatedRank(fourcc) ==
    IF fourcc \in { FOURCC_GBRG8, FOURCC_RGGB8 } THEN 0
    ELSE IF fourcc = FOURCC_BGR24 THEN 1
    ELSE IF fourcc = FOURCC_YUY2 THEN 2
    ELSE IF fourcc = FOURCC_MJPG THEN 3
    ELSE IF fourcc = FOURCC_Y16 THEN 4
    ELSE IF fourcc = FOURCC_Y800 THEN 5
    ELSE IF fourcc = FOURCC_PWL_RG12 THEN 6
    ELSE IF fourcc \in { FOURCC_RGGB10, FOURCC_RGGB12 } THEN 7
    ELSE IF fourcc = FOURCC_RGGB16 THEN 8
    ELSE IF fourcc = FOURCC_POLARIZATION_BG8_90_45_135_0 THEN 9
    ELSE IF fourcc = FOURCC_POLARIZATION_MONO8_90_45_135_0 THEN 10
    ELSE -1

\* The ranked encodings in format_fourccs.
RankedPresent ==
    { format_fourccs[i] : i \in 1..Len(format_fourccs) } \ { f \in Fourccs : StatedRank(f) = -1 }

\* C29: find_preferred_format returns a ranked encoding of format_fourccs
\* whose place in the stated order is the lowest present, and 0 only when no
\* ranked encoding is present.
C29_PreferredHasLowestRank ==
    called = "find_preferred_format"
        => IF RankedPresent = {}
           THEN preferred_fourcc = 0
           ELSE /\ preferred_fourcc \in RankedPresent
                /\ \A f \in RankedPresent : StatedRank(preferred_fourcc) <= StatedRank(f)

\* The structures of incoming that carry the preferred encoding.
PreferredEntries ==
    LET preferred == find_preferred_format(index_format_fourccs(incoming))
    IN  { incoming[i] : i \in { k \in 1..Len(incoming) : incoming[k].fourcc = preferred } }

\* C30: the caps tcam_gst_find_largest_caps returns are one structure with the
\* preferred encoding, the greatest width among the structures with that
\* encoding, the greatest height among those of that width, and the highest
\* framerate of a structure of that resolution.
C30_LargestOfPreferred ==
    (called = "tcam_gst_find_largest_caps" /\ ~largest_caps.null)
        => \E selected \in largest_caps.caps :
              /\ largest_caps.caps = { selected }
              /\ \E entry \in PreferredEntries :
                    /\ selected.fourcc = entry.fourcc
                    /\ selected.width = entry.width
                    /\ selected.height = entry.height
                    /\ \A g \in entry.framerate : \E f \in selected.framerate : g <= f
              /\ \A entry \in PreferredEntries :
                    \/ entry.width < selected.width
                    \/ entry.width = selected.width /\ entry.height <= selected.height

\* The device and the request of the scenario of C31: 8-bit Bayer at
\* 1920x1080 with the frame rates 30 and 60, a packed RGB format at any
\* resolution wanted, bayer2rgb installed and tcamdutils not.
DebayerScenario ==
    /\ available_caps = { [ name |-> "video/x-bayer", format |-> { "rggb" },
                            width |-> { 1920 }, height |-> { 1080 },
                            framerate |-> { 30, 60 } ] }
    /\ wanted_caps = { [ name |-> "video/x-raw", format |-> { "BGRx" },
                         width |-> {}, height |-> {}, framerate |-> {} ] }
    /\ "bayer2rgb" \in factories
    /\ "tcamdutils" \notin factories

PackedBayerToYuvScenario ==
    /\ available_caps # {}
    /\ \A s \in available_caps : s.format = { "rggb12p" }
    /\ wanted_caps # {}
    /\ \A s \in wanted_caps : s.format = { "YUY2" }
    /\ "tcamdutils" \notin factories
    /\ { "tcamby1xtransform", "bayer2rgb", "videoconvert" } \subseteq factories
    /\ toggles.use_by1xtransform

\* C32: in the scenario find_input_caps sets the flags of tcamby1xtransform,
\* bayer2rgb and videoconvert.
C32_ThreeStages ==
    (PackedBayerToYuvScenario /\ called # "none")
        => modules.bayertransform /\ modules.bayer2rgb /\ modules.videoconvert

\* The place of a filter in available_filter.
RegistryIndex(name) ==
    CHOOSE k \in 1..Len(available_filter) : available_filter[k].name = name

\* The type of the filter at place i of filter_pipeline.
StageType(i) == available_filter[RegistryIndex(filter_pipeline[i].name)].type

\* C33: after add_interpretation_filter every stage of type INTERPRET is
\* ahead of every stage of type CONVERSION, and the stages of type INTERPRET
\* are in the order of available_filter.
C33_InterpretationInRegistryOrder ==
    called = "add_interpretation_filter" =>
        \A i, j \in 1..Len(filter_pipeline) :
            (i < j /\ StageType(j) = FILTER_TYPE_INTERPRET) =>
                /\ StageType(i) = FILTER_TYPE_INTERPRET
                /\ RegistryIndex(filter_pipeline[i].name)
                       < RegistryIndex(filter_pipeline[j].name)

\* C34: the chain a successful create_pipeline leaves has every filter of
\* type INTERPRET that takes every format (input_fourcc = <<0>>), bound with
\* equal input and output format and ahead of every stage of type CONVERSION.
C34_AnyEncodingInterpretationPresent ==
    ctl_pc = "start_sink" =>
        \A k \in 1..Len(available_filter) :
            (/\ available_filter[k].type = FILTER_TYPE_INTERPRET
             /\ available_filter[k].input_fourcc = << 0 >>) =>
                \E i \in 1..Len(filter_pipeline) :
                    /\ filter_pipeline[i].name = available_filter[k].name
                    /\ filter_pipeline[i].in = filter_pipeline[i].out
                    /\ \A j \in 1..(i - 1) : StageType(j) # FILTER_TYPE_CONVERSION

\* No call of set_status or destroyPipeline is in progress, made by the
\* application or inside another operation: the control thread is between
\* two operations.
NoStatusCall == ctl_pc = "idle"

\* C35: while no call of set_status or destroyPipeline is in progress and the
\* status is PLAYING, source and sink are set and have taken the status
\* PLAYING, and the worker thread runs.
C35_PlayingMeansRunning ==
    (NoStatusCall /\ status = TCAM_PIPELINE_PLAYING) =>
        /\ source /\ sink
        /\ source_status = TCAM_PIPELINE_PLAYING
        /\ sink_status = TCAM_PIPELINE_PLAYING
        /\ WorkerRunning

C35_Witness ==
    /\ ctl_pc = "idle"
    /\ status = TCAM_PIPELINE_PLAYING
    /\ Len(delivered) > 0

\* C36: when start_playing starts a worker thread, the queue holds no buffer
\* that was queued before stop_playing last began, so that no such buffer
\* reaches the Sink after the start.
C36_NoStaleBufferAtWorkerStart ==
    [][ (m_pipeline_thread = "none" /\ m_pipeline_thread' = "lock")
            => \A i \in 1..Len(m_entry_queue) :
                   Pos(enqueued, m_entry_queue[i]) > stopped_at ]_vars

\* C37: when create_conversion_pipeline has returned true for a requested
\* output format, the fourcc of input_format, which create_pipeline passes to
\* the source, is a fourcc the device reports and is not 0.
C37_InputFormatFromDevice ==
    [][ (ctl_pc = "create_pipeline" /\ ctl_pc' # ctl_pc /\ source /\ sink
            /\ output_format # 0)
            => /\ input_format' # 0
               /\ input_format' \in Range(getDeviceFourcc) ]_vars

\* C38: gst_tcam_mainsrc_create does not wait on cv while the queue holds a
\* buffer and is_running is true.
C38_NoWaitWithBufferQueued ==
    ~(create_pc = "waiting" /\ queue # << >> /\ is_running)

\* C39: once is_running is false, a gst_tcam_mainsrc_create in progress
\* returns, unless the element is set running again.
C39_CreateReturnsWhenStopped ==
    [](( ~is_running /\ create_pc # "idle") => <>(create_pc = "idle" \/ is_running))

\* --------------------------------------------------------- CaptureDeviceImpl

\* Names get_property is asked for; the pipeline of an open device has the
\* first two.
PropertyNames == { "Gain", "ExposureTime", "Unknown" }

get_properties_result == { "Gain", "ExposureTime" }

\* What the operations below leave alone: the state of the PipelineManager, its
\* threads and the element.  What a call into the pipeline of an open device
\* does to the PipelineManager is the subject of Spec; here the call is its
\* return value.
DeviceRest ==
    << pipeline_vars, ctl_vars, worker_vars, producer_vars, is_running, lost_notified,
       eos_sent, mainsrc_vars, caps_vars >>

api_return(op, r, v) ==
    /\ api_op' = op
    /\ api_ret' = r
    /\ api_value' = v

is_device_open == device # 0

\* open_device(device_desc): a device that is open is closed first;
\* open_device_info is set before openDeviceInterface, whose success is opened.
open_device(device_desc, opened) ==
    /\ ~terminated
    /\ open_device_info' = device_desc
    /\ active_video_format' = 0
    /\ IF opened
       THEN /\ device' = device_desc
            /\ pipeline' = TRUE
            /\ api_return("open_device", "true", 0)
       ELSE /\ device' = 0
            /\ pipeline' = FALSE
            /\ api_return("open_device", "false", 0)
    /\ UNCHANGED << DeviceRest, device_lost_callback_data_, null_dereference, terminated >>

\* close_device.
close_device ==
    /\ ~terminated
    /\ IF ~is_device_open
       THEN UNCHANGED << device, pipeline, open_device_info, active_video_format >>
       ELSE /\ pipeline' = FALSE
            /\ open_device_info' = 0
            /\ device' = 0
            /\ active_video_format' = 0
    /\ api_return("close_device", "true", 0)
    /\ UNCHANGED << DeviceRest, device_lost_callback_data_, null_dereference, terminated >>

\* register_device_lost_callback(callback, user_data); registered is what
\* device->register_device_lost_callback returns.
api_register_device_lost_callback(max, registered) ==
    /\ ~terminated
    /\ IF ~is_device_open
       THEN /\ api_return("register_device_lost_callback", "false", 0)
            /\ UNCHANGED device_lost_callback_data_
       ELSE /\ device_lost_callback_data_ < max
            /\ device_lost_callback_data_' = device_lost_callback_data_ + 1
            /\ api_return("register_device_lost_callback",
                          IF registered THEN "true" ELSE "false", 0)
    /\ UNCHANGED << DeviceRest, device, pipeline, open_device_info, active_video_format,
                    null_dereference, terminated >>

\* get_properties().
get_properties ==
    /\ ~terminated
    /\ IF ~is_device_open
       THEN api_return("get_properties", "empty", 0)
       ELSE api_return("get_properties", "properties", 0)
    /\ UNCHANGED << DeviceRest, device, pipeline, open_device_info, active_video_format,
                    device_lost_callback_data_, null_dereference, terminated >>

\* get_property(name) calls pipeline->get_properties() without asking
\* is_device_open.  With pipeline == nullptr the call is undefined: the process
\* dies, or the call goes on with whatever it reads and returns a property or
\* nullptr.
get_property(name) ==
    /\ ~terminated
    /\ IF pipeline
       THEN /\ api_return("get_property",
                          IF name \in get_properties_result THEN "property" ELSE "nullptr",
                          0)
            /\ UNCHANGED << null_dereference, terminated >>
       ELSE /\ null_dereference' = TRUE
            /\ \/ /\ terminated' = TRUE
                  /\ api_return("get_property", "none", 0)
               \/ /\ \E r \in { "property", "nullptr" } : api_return("get_property", r, 0)
                  /\ UNCHANGED terminated
    /\ UNCHANGED << DeviceRest, device, pipeline, open_device_info, active_video_format,
                    device_lost_callback_data_ >>

\* get_available_video_formats().
get_available_video_formats ==
    /\ ~terminated
    /\ IF ~is_device_open
       THEN api_return("get_available_video_formats", "empty", 0)
       ELSE api_return("get_available_video_formats", "formats", 0)
    /\ UNCHANGED << DeviceRest, device, pipeline, open_device_info, active_video_format,
                    device_lost_callback_data_, null_dereference, terminated >>

\* set_video_format(new_format); accepted is what device->set_video_format
\* returns.
set_video_format(new_format, accepted) ==
    /\ ~terminated
    /\ IF ~is_device_open
       THEN /\ api_return("set_video_format", "false", 0)
            /\ UNCHANGED active_video_format
       ELSE /\ active_video_format' = IF accepted THEN new_format ELSE active_video_format
            /\ api_return("set_video_format", IF accepted THEN "true" ELSE "false", 0)
    /\ UNCHANGED << DeviceRest, device, pipeline, open_device_info,
                    device_lost_callback_data_, null_dereference, terminated >>

\* get_active_video_format().
get_active_video_format ==
    /\ ~terminated
    /\ IF ~is_device_open
       THEN api_return("get_active_video_format", "VideoFormat", 0)
       ELSE api_return("get_active_video_format", "VideoFormat", active_video_format)
    /\ UNCHANGED << DeviceRest, device, pipeline, open_device_info, active_video_format,
                    device_lost_callback_data_, null_dereference, terminated >>

\* start_stream(sink); sink_set is what pipeline->setSink returns, playing what
\* pipeline->set_status(TCAM_PIPELINE_PLAYING) returns.
api_start_stream(sink_set, playing) ==
    /\ ~terminated
    /\ IF ~is_device_open
       THEN api_return("start_stream", "false", 0)
       ELSE IF ~sink_set
       THEN api_return("start_stream", "false", 0)
       ELSE api_return("start_stream", IF playing THEN "true" ELSE "false", 0)
    /\ UNCHANGED << DeviceRest, device, pipeline, open_device_info, active_video_format,
                    device_lost_callback_data_, null_dereference, terminated >>

\* stop_stream(); stopped is what pipeline->set_status(TCAM_PIPELINE_STOPPED)
\* returns.
api_stop_stream(stopped) ==
    /\ ~terminated
    /\ IF ~is_device_open
       THEN api_return("stop_stream", "false", 0)
       ELSE api_return("stop_stream", IF stopped THEN "true" ELSE "false", 0)
    /\ UNCHANGED << DeviceRest, device, pipeline, open_device_info, active_video_format,
                    device_lost_callback_data_, null_dereference, terminated >>

\* A CaptureDeviceImpl made by its default constructor, and every order of
\* calls of its public operations.
DeviceInit == InitPipelineManager /\ DeviceClosed /\ NoNegotiation

DeviceNext ==
    \/ \E d \in 1..MaxDevices, opened \in BOOLEAN : open_device(d, opened)
    \/ close_device
    \/ \E registered \in BOOLEAN :
           api_register_device_lost_callback(MaxListeners, registered)
    \/ get_properties
    \/ \E name \in PropertyNames : get_property(name)
    \/ get_available_video_formats
    \/ \E f \in 1..MaxFormats, accepted \in BOOLEAN : set_video_format(f, accepted)
    \/ get_active_video_format
    \/ \E sink_set \in BOOLEAN, playing \in BOOLEAN : api_start_stream(sink_set, playing)
    \/ \E stopped \in BOOLEAN : api_stop_stream(stopped)

DeviceSpec == DeviceInit /\ [][DeviceNext]_vars

\* What each operation returns when it has nothing to work on.
FailureValue ==
    [ close_device |-> "true",
      register_device_lost_callback |-> "false",
      get_properties |-> "empty",
      get_property |-> "nullptr",
      get_available_video_formats |-> "empty",
      set_video_format |-> "false",
      get_active_video_format |-> "VideoFormat",
      start_stream |-> "false",
      stop_stream |-> "false" ]

\* C40: an operation of CaptureDeviceImpl other than open_device that is called
\* with no device open returns its failure or empty value, dereferences neither
\* the null pipeline nor the null device, and leaves the device closed; and
\* close_device always leaves is_device_open() false.
C40_ClosedDeviceFailsCleanly ==
    [][ /\ (~is_device_open /\ api_op' # "open_device")
            => /\ null_dereference' = null_dereference
               /\ ~terminated'
               /\ api_ret' = FailureValue[api_op']
               /\ api_value' = 0
               /\ device' = 0
               /\ pipeline' = pipeline
        /\ api_op' = "close_device" => device' = 0 ]_vars

====
